---------------------------- MODULE Spec2Model ----------------------------
(***************************************************************************)
(* RBAC backend of the revenue-reconciliation service: credential store,   *)
(* permission catalog, permission resolver, auth guard and audit recorder. *)
(*                                                                         *)
(* The relational store is the record db, one field per table.  Rows are   *)
(* identified by small integers standing for the UUID primary keys; NULL   *)
(* stands for Python's None / SQL NULL.  Every handler is one action: the  *)
(* dependency chain (token -> user -> active -> role), the handler body    *)
(* and the commit.  response holds the JSON envelope of the last request.  *)
(***************************************************************************)
EXTENDS Integers, Sequences, FiniteSets, TLC

VARIABLES
    db,             \* the relational store: one field per table
    tokens,         \* bearer tokens issued by login and not yet expired
    audit_sink_ok,  \* whether audit_log_repo.create can currently persist
    request,        \* the last request: endpoint, bearer token, path parameters
    response,       \* the response to it
    sessions        \* requests served concurrently: each one's position in
                    \* its handler and what it has read so far

vars == <<db, tokens, audit_sink_ok, request, response, sessions>>

---------------------------------------------------------------------------
(* Bounds of the model *)

MaxUsers == 2
MaxTokens == 2
MaxAudit == 2
MaxRoles == 3
MaxCodes == 2
MaxCustomRoles == 1
MaxDepartments == 2
MaxSessions == 2

(* Program constants *)

NULL == 0

ADMIN == 1
OPERATIONS == 2
CXO == 3

UserRole == {ADMIN, OPERATIONS, CXO}

HTTP_200_OK == 200
HTTP_201_CREATED == 201
HTTP_400_BAD_REQUEST == 400
HTTP_401_UNAUTHORIZED == 401
HTTP_403_FORBIDDEN == 403
HTTP_404_NOT_FOUND == 404
HTTP_422_UNPROCESSABLE_ENTITY == 422
HTTP_500_INTERNAL_SERVER_ERROR == 500

\* AuditLogFilter.limit: Field(50, ge=1, le=200)
AuditLogFilter_limit_default == 50
AuditLogFilter_limit_ge == 1
AuditLogFilter_limit_le == 200

\* AuditLogRepository.get_all: limit = min(limit, 200)
get_all_limit_max == 200

(* Input alphabets *)

Emails == {"admin@revenueguardian.com", "bob@x.com"}
Usernames == {"admin", "bob"}
Passwords == {"Admin@123", "Other@123"}

---------------------------------------------------------------------------
(* app.core.security: password hashing and token signing.  A hash is a     *)
(* tagged value distinct from the plain text; a token carries its payload  *)
(* and whether signature and expiry verify.                                *)

get_password_hash(password) == <<"hash", password>>

verify_password(plain_password, hashed_password) ==
    hashed_password = get_password_hash(plain_password)

create_access_token(data) ==
    [sig |-> "valid", sub |-> data.sub, email |-> data.email, role |-> data.role]

\* A token that fails decode_access_token: bad signature, malformed or expired.
BadToken == [sig |-> "invalid", sub |-> NULL, email |-> "", role |-> NULL]

\* decode_access_token raises JWTError unless signature and expiry verify.
decode_access_token_raises(token) == token.sig # "valid"

decode_access_token(token) == [sub |-> token.sub, email |-> token.email, role |-> token.role]

---------------------------------------------------------------------------
(* Result.scalar_one_or_none over the ids of the matching rows.  The       *)
(* unique constraints of the tables keep every lookup below to one row.    *)

scalar_one_or_none(rows) == IF rows = {} THEN NULL ELSE CHOOSE r \in rows : TRUE

---------------------------------------------------------------------------
(* app.crud.user.UserRepository *)

\* A lookup by id without the is_deleted filter (sensitivity of the guard to it).
user_repo_get_by_id_with_deleted(d, user_id) ==
    scalar_one_or_none({i \in DOMAIN d.users : i = user_id})

user_repo_get_by_id(d, user_id) ==
    scalar_one_or_none({i \in DOMAIN d.users : i = user_id /\ ~d.users[i].is_deleted})

user_repo_get_by_email(d, email) ==
    scalar_one_or_none({i \in DOMAIN d.users :
                           d.users[i].email = email /\ ~d.users[i].is_deleted})

user_repo_get_by_username(d, username) ==
    scalar_one_or_none({i \in DOMAIN d.users :
                           d.users[i].username = username /\ ~d.users[i].is_deleted})

user_repo_email_exists(d, email) == user_repo_get_by_email(d, email) # NULL

user_repo_username_exists(d, username) == user_repo_get_by_username(d, username) # NULL

\* UserRepository.get_all with the default page (skip 0, limit 100): the
\* ids of the rows selected.
user_repo_get_all(d) == {i \in DOMAIN d.users : ~d.users[i].is_deleted}

\* The constraints of the users table (models/user.py): email and username
\* unique over all rows, soft-deleted ones included; role not null;
\* department_id a foreign key.
users_constraints_ok(us, depts) ==
    /\ \A i, j \in DOMAIN us :
          i # j => us[i].email # us[j].email /\ us[i].username # us[j].username
    /\ \A i \in DOMAIN us : us[i].role # NULL
    /\ \A i \in DOMAIN us :
          us[i].department_id # NULL => us[i].department_id \in DOMAIN depts

\* UserRepository.create: the row it adds; department_id is not passed on.
user_repo_create(d, user_in) ==
    Append(d.users,
           [email         |-> user_in.email,
            username      |-> user_in.username,
            password_hash |-> get_password_hash(user_in.password),
            role          |-> user_in.role,
            department_id |-> NULL,
            is_active     |-> TRUE,
            is_deleted    |-> FALSE])

\* UserRepository.update that leaves email and username alone (sensitivity
\* of the update to the identity fields of the body).
user_repo_update_keeping_identity(d, user, update_data) ==
    LET row == d.users[user]
        new == [f \in DOMAIN row |->
                   IF f = "password_hash" /\ "password" \in DOMAIN update_data
                   THEN get_password_hash(update_data.password)
                   ELSE IF f \in DOMAIN update_data \ {"email", "username"}
                   THEN update_data[f]
                   ELSE row[f]]
    IN  [d.users EXCEPT ![user] = new]

\* UserRepository.update: setattr of every field that was set in the body.
user_repo_update(d, user, update_data) ==
    LET row == d.users[user]
        new == [f \in DOMAIN row |->
                   IF f = "password_hash" /\ "password" \in DOMAIN update_data
                   THEN get_password_hash(update_data.password)
                   ELSE IF f \in DOMAIN update_data THEN update_data[f]
                   ELSE row[f]]
    IN  [d.users EXCEPT ![user] = new]

\* A soft delete that leaves is_active as it is (sensitivity of the
\* inactivity of deleted users to the second assignment).
user_repo_delete_keeping_active(d, user) ==
    [d.users EXCEPT ![user].is_deleted = TRUE]

\* UserRepository.delete: soft delete.
user_repo_delete(d, user) ==
    [d.users EXCEPT ![user].is_deleted = TRUE, ![user].is_active = FALSE]

---------------------------------------------------------------------------
(* app.crud.department.DepartmentRepository *)

department_repo_get_by_id(d, department_id) ==
    scalar_one_or_none({i \in DOMAIN d.departments :
                           i = department_id /\ ~d.departments[i].is_deleted})

\* str.lower / func.lower over the codes that occur in requests and rows.
lower(code) ==
    CASE code \in {"it", "IT"} -> "it"
      [] code \in {"fin", "FIN"} -> "fin"
      [] OTHER -> code

\* DepartmentRepository.get_all on the first page, without search: the ids
\* of the rows selected.  query holds the query parameters that were given;
\* soft-deleted rows are excluded (the router never asks for them).
department_repo_get_all(d, query) ==
    {i \in DOMAIN d.departments :
        /\ ~d.departments[i].is_deleted
        /\ "is_active" \in DOMAIN query
              => d.departments[i].is_active = query.is_active}

\* A lookup by code that compares the codes as written (sensitivity of the
\* uniqueness of codes to the case folding).
department_repo_get_by_code_case_sensitive(d, code, exclude_id) ==
    scalar_one_or_none({i \in DOMAIN d.departments :
                           /\ d.departments[i].code = code
                           /\ ~d.departments[i].is_deleted
                           /\ exclude_id # NULL => i # exclude_id})

\* DepartmentRepository.get_by_code: case-insensitive, among the rows that
\* are not soft-deleted, optionally excluding one id.
department_repo_get_by_code(d, code, exclude_id) ==
    scalar_one_or_none({i \in DOMAIN d.departments :
                           /\ lower(d.departments[i].code) = lower(code)
                           /\ ~d.departments[i].is_deleted
                           /\ exclude_id # NULL => i # exclude_id})

\* The constraint of the departments table (models/department.py): code unique
\* over all rows, soft-deleted ones included.
departments_constraints_ok(ds) ==
    \A i, j \in DOMAIN ds : i # j => ds[i].code # ds[j].code

department_repo_create(d, department_in) ==
    Append(d.departments,
           [name |-> department_in.name, code |-> department_in.code,
            is_active |-> department_in.is_active, is_deleted |-> FALSE])

\* DepartmentRepository.update: setattr of every field that was set in the body.
department_repo_update(d, department, department_in) ==
    LET row == d.departments[department]
    IN  [d.departments EXCEPT ![department] =
            [f \in DOMAIN row |->
                IF f \in DOMAIN department_in THEN department_in[f] ELSE row[f]]]

\* DepartmentRepository.delete: soft delete.
department_repo_delete(d, department) ==
    [d.departments EXCEPT ![department].is_deleted = TRUE,
                          ![department].is_active = FALSE]

\* A count of the users that are not soft-deleted only (sensitivity of the
\* deletion to the users counted).
department_repo_get_user_count_not_deleted(d, department_id) ==
    Cardinality({u \in DOMAIN d.users :
                    /\ d.users[u].department_id = department_id
                    /\ ~d.users[u].is_deleted})

\* DepartmentRepository.get_user_count: every users row that references the
\* department, soft-deleted users included.
department_repo_get_user_count(d, department_id) ==
    Cardinality({u \in DOMAIN d.users : d.users[u].department_id = department_id})

---------------------------------------------------------------------------
(* app.core.response.APIResponse and the registered exception handlers *)

APIResponse(status_code, message) ==
    [status |-> status_code, message |-> message]

\* HTTPException raised inside a dependency: FastAPI answers with its status.
HTTPException(status_code, detail) ==
    [status |-> status_code, message |-> detail]

\* validation_exception_handler: a request whose parameters do not validate.
validation_exception_handler ==
    APIResponse(HTTP_422_UNPROCESSABLE_ENTITY, "Request validation failed")

\* sqlalchemy_exception_handler: a failed commit (constraint violation).
sqlalchemy_exception_handler ==
    APIResponse(HTTP_500_INTERNAL_SERVER_ERROR, "Database error occurred")

\* general_exception_handler: any other uncaught exception.
general_exception_handler ==
    APIResponse(HTTP_500_INTERNAL_SERVER_ERROR, "An unexpected error occurred")

---------------------------------------------------------------------------
(* app.dependencies.auth: the guard chain.  Each stage yields either the   *)
(* loaded user (ok) or the HTTPException it raised.                        *)

Passed(user) == [ok |-> TRUE, user |-> user, status |-> HTTP_200_OK, detail |-> ""]

Raised(status_code, detail) ==
    [ok |-> FALSE, user |-> NULL, status |-> status_code, detail |-> detail]

credentials_exception == Raised(HTTP_401_UNAUTHORIZED, "Could not validate credentials")

get_current_user(d, token) ==
    IF decode_access_token_raises(token) THEN credentials_exception
    ELSE LET payload == decode_access_token(token)
             user_id == payload.sub
         IN  IF user_id = NULL THEN credentials_exception
             ELSE LET user == user_repo_get_by_id(d, user_id)
                  IN  IF user = NULL THEN credentials_exception ELSE Passed(user)

get_current_active_user(d, token) ==
    LET current_user == get_current_user(d, token)
    IN  IF ~current_user.ok THEN current_user
        ELSE IF ~d.users[current_user.user].is_active
             THEN Raised(HTTP_403_FORBIDDEN, "Inactive user")
             ELSE current_user

\* A role check with a hierarchy: a role admits every role above it
\* (sensitivity of the guard to strict equality).
require_role_hierarchy(required_role, d, token) ==
    LET current_user == get_current_active_user(d, token)
    IN  IF ~current_user.ok THEN current_user
        ELSE IF d.users[current_user.user].role > required_role
             THEN Raised(HTTP_403_FORBIDDEN, "Insufficient permissions")
             ELSE current_user

\* A guard that checks the role before the active flag (sensitivity of the
\* guard to the order of its checks).
require_role_before_active(required_role, d, token) ==
    LET current_user == get_current_user(d, token)
    IN  IF ~current_user.ok THEN current_user
        ELSE IF d.users[current_user.user].role # required_role
             THEN Raised(HTTP_403_FORBIDDEN, "Insufficient permissions")
             ELSE IF ~d.users[current_user.user].is_active
             THEN Raised(HTTP_403_FORBIDDEN, "Inactive user")
             ELSE current_user

\* A role check that trusts the role claim carried by the token instead of
\* the stored role (sensitivity of the guard to the advisory claims).
require_role_from_token_claim(required_role, d, token) ==
    LET current_user == get_current_active_user(d, token)
    IN  IF ~current_user.ok THEN current_user
        ELSE IF token.role # required_role
             THEN Raised(HTTP_403_FORBIDDEN, "Insufficient permissions")
             ELSE current_user

require_role(required_role, d, token) ==
    LET current_user == get_current_active_user(d, token)
    IN  IF ~current_user.ok THEN current_user
        ELSE IF d.users[current_user.user].role # required_role
             THEN Raised(HTTP_403_FORBIDDEN, "Insufficient permissions")
             ELSE current_user

require_admin(d, token) == require_role(ADMIN, d, token)
require_operations(d, token) == require_role(OPERATIONS, d, token)
require_cxo(d, token) == require_role(CXO, d, token)

---------------------------------------------------------------------------
(* app.utils.audit and app.crud.audit_log *)

\* AuditLogCreate: description has min_length = 1.
AuditLogCreate_valid(entry) == entry.description # <<>>

\* A create that keeps only the newest entry (sensitivity of the trail to
\* earlier entries being kept).
audit_log_repo_create_overwriting(d, sink_ok, entry) ==
    IF sink_ok
    THEN [raised |-> FALSE, rolled_back |-> FALSE, audit_logs |-> <<entry>>]
    ELSE [raised |-> TRUE, rolled_back |-> TRUE, audit_logs |-> d.audit_logs]

\* AuditLogRepository.create: add, commit, refresh on the request's session.
\* sink_ok tells whether the database accepts the INSERT and the commit.  A
\* commit that fails raises, and SQLAlchemy rolls the session back, which
\* expires every instance loaded in that session.
audit_log_repo_create(d, sink_ok, entry) ==
    IF sink_ok
    THEN [raised |-> FALSE, rolled_back |-> FALSE,
          audit_logs |-> Append(d.audit_logs, entry)]
    ELSE [raised |-> TRUE, rolled_back |-> TRUE, audit_logs |-> d.audit_logs]

\* log_audit: try/except Exception around the validation of the entry and
\* the create; a failure is printed and swallowed.
log_audit(d, sink_ok, entry) ==
    IF ~AuditLogCreate_valid(entry)
    THEN [raised |-> FALSE, rolled_back |-> FALSE, audit_logs |-> d.audit_logs]
    ELSE [audit_log_repo_create(d, sink_ok, entry) EXCEPT !.raised = FALSE]

\* A log_login that records every attempt as a successful login of the
\* user passed in (sensitivity of the audit trail to the success flag).
log_login_always_success(d, sink_ok, user_id, email, success) ==
    log_audit(d, sink_ok,
              [user_id     |-> user_id,
               action_type |-> "login",
               status      |-> "success",
               severity    |-> "",
               description |-> <<"User", email, "logged in successfully">>])

log_login(d, sink_ok, user_id, email, success) ==
    log_audit(d, sink_ok,
              [user_id     |-> IF success THEN user_id ELSE NULL,
               action_type |-> IF success THEN "login" ELSE "login_failed",
               status      |-> IF success THEN "success" ELSE "failure",
               severity    |-> "",
               description |-> IF success
                               THEN <<"User", email, "logged in successfully">>
                               ELSE <<"Failed login attempt for", email>>])

---------------------------------------------------------------------------
(* Exceptions, app.utils.audit.log_error / determine_severity and the      *)
(* handler registered for Exception.  An exception is its class name and   *)
(* the names of the classes it is an instance of.                          *)

Exception(class, bases) == [class |-> class, bases |-> bases \cup {class, "Exception"}]

\* determine_severity: isinstance against the critical classes, then the
\* name of the class itself, then the default.
determine_severity(error) ==
    IF error.bases \cap {"SystemError", "MemoryError", "RuntimeError"} # {}
    THEN "critical"
    ELSE IF error.class \in {"ValidationError", "ValueError", "TypeError"}
    THEN "warning"
    ELSE "error"

\* A log_error that classifies the error itself and ignores the severity
\* it is passed (sensitivity of the entry to the severity argument).
log_error_classifying(d, sink_ok, error, description, user_id, severity) ==
    log_audit(d, sink_ok,
              [user_id     |-> user_id,
               action_type |-> "exception_raised",
               status      |-> "error",
               severity    |-> determine_severity(error),
               description |-> description,
               error_type  |-> error.class])

\* log_error: the entry carries the severity that was passed.
log_error(d, sink_ok, error, description, user_id, severity) ==
    log_audit(d, sink_ok,
              [user_id     |-> user_id,
               action_type |-> "exception_raised",
               status      |-> "error",
               severity    |-> severity,
               description |-> description,
               error_type  |-> error.class])

\* The default of log_error's severity parameter: ErrorSeverity.ERROR.
log_error_default_severity == "error"

\* The handler registered for Exception: it logs the error through
\* log_error on a session of its own, with the severity of
\* determine_severity and no user id (nothing sets request.state.user_id),
\* and answers 500 whether or not the entry was written.
handle_general_exception(d, sink_ok, exc) ==
    LET severity == determine_severity(exc)
        logged == log_error(d, sink_ok, exc, <<"Unhandled exception:", exc.class>>,
                            NULL, severity)
    IN  [db |-> [d EXCEPT !.audit_logs = logged.audit_logs],
         response |-> general_exception_handler]

\* list_users (GET /users/): past the admin guard the handler calls
\* user_repo.get_all with keyword arguments the method does not have,
\* which raises TypeError.
list_users_handler(d, sink_ok, token) ==
    LET guard == require_admin(d, token)
    IN  IF ~guard.ok
        THEN [db |-> d, response |-> HTTPException(guard.status, guard.detail)]
        ELSE handle_general_exception(d, sink_ok, Exception("TypeError", {}))

---------------------------------------------------------------------------
(* app.services.auth.AuthService *)

\* An authentication that does not look at is_active (sensitivity of login to it).
authenticate_user_ignoring_is_active(d, email, password) ==
    LET user == user_repo_get_by_email(d, email)
    IN  IF user = NULL THEN NULL
        ELSE IF ~verify_password(password, d.users[user].password_hash) THEN NULL
        ELSE user

authenticate_user(d, email, password) ==
    LET user == user_repo_get_by_email(d, email)
    IN  IF user = NULL THEN NULL
        ELSE IF ~d.users[user].is_active THEN NULL
        ELSE IF ~verify_password(password, d.users[user].password_hash) THEN NULL
        ELSE user

create_user_token(d, user) ==
    create_access_token([sub |-> user, email |-> d.users[user].email,
                         role |-> d.users[user].role])

---------------------------------------------------------------------------
(* app.routers.public.auth.login: the handler as a function of the store   *)
(* and the request; it yields the new store, the set of tokens issued      *)
(* (empty or one token) and the response.                                  *)

login_handler(d, sink_ok, email, password) ==
    LET user == authenticate_user(d, email, password)
        logged == log_login(d, sink_ok, user, email, user # NULL)
        d2 == [d EXCEPT !.audit_logs = logged.audit_logs]
    IN  IF logged.raised
        THEN [db |-> d, issued |-> {}, response |-> general_exception_handler]
        ELSE IF user = NULL
        THEN [db |-> d2, issued |-> {},
              response |-> APIResponse(HTTP_401_UNAUTHORIZED,
                                       "Incorrect email or password")]
        \* create_user_token(user) reads user.id, user.email and user.role: on
        \* an instance expired by the rollback the read needs a reload, which
        \* raises an SQLAlchemyError under the async session.
        ELSE IF logged.rolled_back
        THEN [db |-> d2, issued |-> {}, response |-> sqlalchemy_exception_handler]
        ELSE LET access_token == create_user_token(d, user)
             IN  [db |-> d2, issued |-> {access_token},
                  response |-> [status |-> HTTP_200_OK,
                                message |-> "Login successful",
                                access_token |-> access_token,
                                token_type |-> "bearer",
                                user |-> [id |-> user,
                                          email |-> d.users[user].email,
                                          username |-> d.users[user].username,
                                          role |-> d.users[user].role]]]

---------------------------------------------------------------------------
(* app.schemas.user: the validation of request bodies.  NULL stands for a  *)
(* JSON null.                                                              *)

\* UserCreate: role is a UserRole.
UserCreate_valid(user_in) == user_in.role \in UserRole

\* A UserUpdate whose role may be any integer (sensitivity of the stored
\* roles to the enumeration).
UserUpdate_valid_any_role(user_in) == TRUE

\* UserUpdate: role, when given, is a UserRole or null.
UserUpdate_valid(user_in) ==
    "role" \in DOMAIN user_in => user_in.role \in UserRole \cup {NULL}

---------------------------------------------------------------------------
(* app.routers.users: the admin-only user management handlers *)

create_user_handler(d, token, user_in) ==
    LET guard == require_admin(d, token)
        created == user_repo_create(d, user_in)
        department == department_repo_get_by_id(d, user_in.department_id)
    IN  IF ~guard.ok
        THEN [db |-> d, response |-> HTTPException(guard.status, guard.detail)]
        ELSE IF ~UserCreate_valid(user_in)
        THEN [db |-> d, response |-> validation_exception_handler]
        ELSE IF user_repo_email_exists(d, user_in.email)
        THEN [db |-> d, response |-> APIResponse(HTTP_400_BAD_REQUEST,
                                                 "Email already exists")]
        ELSE IF user_repo_username_exists(d, user_in.username)
        THEN [db |-> d, response |-> APIResponse(HTTP_400_BAD_REQUEST,
                                                 "Username already exists")]
        ELSE IF user_in.department_id # NULL /\ department = NULL
        THEN [db |-> d, response |-> APIResponse(HTTP_400_BAD_REQUEST,
                                                 "Invalid department")]
        ELSE IF user_in.department_id # NULL /\ ~d.departments[department].is_active
        THEN [db |-> d, response |-> APIResponse(HTTP_400_BAD_REQUEST,
                                                 "Invalid department")]
        ELSE IF ~users_constraints_ok(created, d.departments)
        THEN [db |-> d, response |-> sqlalchemy_exception_handler]
        ELSE [db |-> [d EXCEPT !.users = created],
              response |-> APIResponse(HTTP_201_CREATED,
                                       "User created successfully")]

update_user_handler(d, token, user_id, user_in) ==
    LET guard == require_admin(d, token)
        user == user_repo_get_by_id(d, user_id)
        updated == user_repo_update(d, user, user_in)
    IN  IF ~guard.ok
        THEN [db |-> d, response |-> HTTPException(guard.status, guard.detail)]
        ELSE IF ~UserUpdate_valid(user_in)
        THEN [db |-> d, response |-> validation_exception_handler]
        ELSE IF user = NULL
        THEN [db |-> d, response |-> APIResponse(HTTP_404_NOT_FOUND,
                                                 "User not found")]
        ELSE IF /\ "email" \in DOMAIN user_in
                /\ user_in.email # d.users[user].email
                /\ user_repo_email_exists(d, user_in.email)
        THEN [db |-> d, response |-> APIResponse(HTTP_400_BAD_REQUEST,
                                                 "Email already exists")]
        ELSE IF /\ "username" \in DOMAIN user_in
                /\ user_in.username # d.users[user].username
                /\ user_repo_username_exists(d, user_in.username)
        THEN [db |-> d, response |-> APIResponse(HTTP_400_BAD_REQUEST,
                                                 "Username already exists")]
        ELSE IF ~users_constraints_ok(updated, d.departments)
        THEN [db |-> d, response |-> sqlalchemy_exception_handler]
        ELSE [db |-> [d EXCEPT !.users = updated],
              response |-> APIResponse(HTTP_200_OK,
                                       "User updated successfully")]

update_user_status_handler(d, token, user_id, is_active) ==
    LET guard == require_admin(d, token)
        user == user_repo_get_by_id(d, user_id)
    IN  IF ~guard.ok
        THEN [db |-> d, response |-> HTTPException(guard.status, guard.detail)]
        ELSE IF user_id = guard.user /\ ~is_active
        THEN [db |-> d, response |-> APIResponse(HTTP_400_BAD_REQUEST,
                                                 "Cannot deactivate your own account")]
        ELSE IF user = NULL
        THEN [db |-> d, response |-> APIResponse(HTTP_404_NOT_FOUND,
                                                 "User not found")]
        ELSE [db |-> [d EXCEPT !.users = user_repo_update(d, user, [is_active |-> is_active])],
              response |-> APIResponse(HTTP_200_OK,
                                       IF is_active THEN "User activated successfully"
                                       ELSE "User deactivated successfully")]

delete_user_handler(d, token, user_id) ==
    LET guard == require_admin(d, token)
        user == user_repo_get_by_id(d, user_id)
    IN  IF ~guard.ok
        THEN [db |-> d, response |-> HTTPException(guard.status, guard.detail)]
        ELSE IF user_id = guard.user
        THEN [db |-> d, response |-> APIResponse(HTTP_400_BAD_REQUEST,
                                                 "Cannot delete your own account")]
        ELSE IF user = NULL
        THEN [db |-> d, response |-> APIResponse(HTTP_404_NOT_FOUND,
                                                 "User not found")]
        ELSE IF d.users[user].is_deleted
        THEN [db |-> d, response |-> APIResponse(HTTP_400_BAD_REQUEST,
                                                 "User already deleted")]
        ELSE [db |-> [d EXCEPT !.users = user_repo_delete(d, user)],
              response |-> APIResponse(HTTP_200_OK,
                                       "User deleted successfully")]

\* get_user (GET /users/{id}): any active user; non-admins only themselves.
get_user_handler(d, token, user_id) ==
    LET guard == get_current_active_user(d, token)
    IN  IF ~guard.ok
        THEN [db |-> d, response |-> HTTPException(guard.status, guard.detail)]
        ELSE IF d.users[guard.user].role # ADMIN /\ guard.user # user_id
        THEN [db |-> d, response |-> APIResponse(HTTP_403_FORBIDDEN, "Forbidden")]
        ELSE IF user_repo_get_by_id(d, user_id) = NULL
        THEN [db |-> d, response |-> APIResponse(HTTP_404_NOT_FOUND,
                                                 "User not found")]
        ELSE [db |-> d, response |-> APIResponse(HTTP_200_OK,
                                                 "User retrieved successfully")]

---------------------------------------------------------------------------
(* app.utils.permissions: the permission resolver.  A user is a users row; *)
(* the resolver reads its role only.                                       *)

\* A mapping whose default is another role (sensitivity of the resolver to
\* the default).
_get_role_code_from_value_default_cxo(role_value) ==
    CASE role_value = 1 -> "ADMIN"
      [] role_value = 2 -> "OPERATIONS"
      [] role_value = 3 -> "CXO"
      [] OTHER -> "CXO"

_get_role_code_from_value(role_value) ==
    CASE role_value = 1 -> "ADMIN"
      [] role_value = 2 -> "OPERATIONS"
      [] role_value = 3 -> "CXO"
      [] OTHER -> "OPERATIONS"

\* The joined rows without the Role.is_active condition (sensitivity of the
\* resolver to the role's flag).
user_has_permission_rows_any_role_state(d, user, permission_code) ==
    {rp \in d.role_permissions :
        /\ d.roles[rp[1]].code = _get_role_code_from_value(user.role)
        /\ d.permissions[rp[2]].code = permission_code
        /\ d.permissions[rp[2]].is_active}

\* select(Permission).join(role_permissions).join(Role).where(...): one row
\* per association whose role and permission satisfy the WHERE clause.
user_has_permission_rows(d, user, permission_code) ==
    {rp \in d.role_permissions :
        /\ d.roles[rp[1]].code = _get_role_code_from_value(user.role)
        /\ d.permissions[rp[2]].code = permission_code
        /\ d.permissions[rp[2]].is_active
        /\ d.roles[rp[1]].is_active}

\* A resolver without the administrator short-circuit (sensitivity of the
\* administrator's grant to it).
user_has_permission_without_bypass(d, user, permission_code) ==
    LET rows == user_has_permission_rows(d, user, permission_code)
        permission == scalar_one_or_none({rp[2] : rp \in rows})
    IN  permission # NULL

\* A resolver whose administrator short-circuit is limited to the codes
\* that are active in the catalog (sensitivity to the reach of the bypass).
user_has_permission_active_only(d, user, permission_code) ==
    IF user.role = 1
    THEN \E p \in DOMAIN d.permissions :
             d.permissions[p].code = permission_code /\ d.permissions[p].is_active
    ELSE LET rows == user_has_permission_rows(d, user, permission_code)
             permission == scalar_one_or_none({rp[2] : rp \in rows})
         IN  permission # NULL

user_has_permission(d, user, permission_code) ==
    IF user.role = 1 THEN TRUE
    ELSE LET rows == user_has_permission_rows(d, user, permission_code)
             permission == scalar_one_or_none({rp[2] : rp \in rows})
         IN  permission # NULL

\* A check of the first code only (sensitivity of the disjunction to the
\* rest of the list).
user_has_any_permission_first_only(d, user, permission_codes) ==
    /\ permission_codes # <<>>
    /\ user_has_permission(d, user, Head(permission_codes))

RECURSIVE user_has_any_permission(_, _, _)
user_has_any_permission(d, user, permission_codes) ==
    IF permission_codes = <<>> THEN FALSE
    ELSE IF user_has_permission(d, user, Head(permission_codes)) THEN TRUE
    ELSE user_has_any_permission(d, user, Tail(permission_codes))

RECURSIVE user_has_all_permissions(_, _, _)
user_has_all_permissions(d, user, permission_codes) ==
    IF permission_codes = <<>> THEN TRUE
    ELSE IF ~user_has_permission(d, user, Head(permission_codes)) THEN FALSE
    ELSE user_has_all_permissions(d, user, Tail(permission_codes))

\* A listing that returns to an administrator every permission of the
\* catalog, inactive ones included (sensitivity to the is_active filter).
get_user_permissions_with_inactive(d, user) ==
    IF user.role = 1
    THEN DOMAIN d.permissions
    ELSE {rp[2] : rp \in
            {rp \in d.role_permissions :
                /\ d.roles[rp[1]].code = _get_role_code_from_value(user.role)
                /\ d.permissions[rp[2]].is_active
                /\ d.roles[rp[1]].is_active}}

\* The list of Permission rows, as the set of their ids.
get_user_permissions(d, user) ==
    IF user.role = 1
    THEN {p \in DOMAIN d.permissions : d.permissions[p].is_active}
    ELSE {rp[2] : rp \in
            {rp \in d.role_permissions :
                /\ d.roles[rp[1]].code = _get_role_code_from_value(user.role)
                /\ d.permissions[rp[2]].is_active
                /\ d.roles[rp[1]].is_active}}

---------------------------------------------------------------------------
(* app.crud.permission.RoleRepository and app.routers.permissions *)

role_repo_get_by_id(d, role_id) ==
    scalar_one_or_none({r \in DOMAIN d.roles : r = role_id})

\* RoleRepository.update: fields that are not None are assigned; the
\* permission list, when given, replaces the role's associations by the
\* permissions found for the ids.
role_repo_update(d, role, role_in) ==
    LET row == d.roles[role]
        new == [f \in DOMAIN row |->
                   IF f \in {"name", "is_active"} /\ f \in DOMAIN role_in
                   THEN role_in[f] ELSE row[f]]
        found == IF "permission_ids" \in DOMAIN role_in
                 THEN {p \in DOMAIN d.permissions : p \in role_in.permission_ids}
                 ELSE {}
        assoc == IF "permission_ids" \in DOMAIN role_in
                 THEN {rp \in d.role_permissions : rp[1] # role}
                          \cup {<<role, p>> : p \in found}
                 ELSE d.role_permissions
    IN  [d EXCEPT !.roles = [d.roles EXCEPT ![role] = new],
                  !.role_permissions = assoc]

\* The constraints of the roles table: name and code unique.
roles_constraints_ok(rs) ==
    \A i, j \in DOMAIN rs : i # j => rs[i].name # rs[j].name /\ rs[i].code # rs[j].code

\* str.upper / func.upper over the codes that occur in requests and rows.
upper(code) ==
    CASE code \in {"manager", "Manager", "MANAGER"} -> "MANAGER"
      [] code \in {"admin", "ADMIN"} -> "ADMIN"
      [] code \in {"it", "IT"} -> "IT"
      [] code \in {"fin", "FIN"} -> "FIN"
      [] OTHER -> code

\* The primary key of a new row: uuid4, a value no stored row has.  Rows
\* that were deleted are referenced nowhere, so the next integer after the
\* stored keys stands for it.
new_id(rows) ==
    IF DOMAIN rows = {} THEN 1
    ELSE 1 + CHOOSE i \in DOMAIN rows : \A j \in DOMAIN rows : j <= i

\* RoleRepository.code_exists: case-insensitive, over all roles.
role_repo_code_exists(d, code) ==
    scalar_one_or_none({r \in DOMAIN d.roles : upper(d.roles[r].code) = upper(code)})
        # NULL

\* RoleRepository.create that flags the new role as a system role
\* (sensitivity of the flag of created roles).
role_repo_create_as_system(d, role_in) ==
    LET role == new_id(d.roles)
        row == [name |-> role_in.name, code |-> upper(role_in.code),
                is_system_role |-> TRUE, is_active |-> TRUE]
        found == {p \in DOMAIN d.permissions : p \in role_in.permission_ids}
    IN  [d EXCEPT !.roles = [r \in DOMAIN d.roles \cup {role} |->
                                IF r = role THEN row ELSE d.roles[r]],
                  !.role_permissions = d.role_permissions
                                           \cup {<<role, p>> : p \in found}]

\* RoleRepository.create: the code is stored in upper case; the role is a
\* custom role, active, with the permissions found for the ids.
role_repo_create(d, role_in) ==
    LET role == new_id(d.roles)
        row == [name |-> role_in.name, code |-> upper(role_in.code),
                is_system_role |-> FALSE, is_active |-> TRUE]
        found == {p \in DOMAIN d.permissions : p \in role_in.permission_ids}
    IN  [d EXCEPT !.roles = [r \in DOMAIN d.roles \cup {role} |->
                                IF r = role THEN row ELSE d.roles[r]],
                  !.role_permissions = d.role_permissions
                                           \cup {<<role, p>> : p \in found}]

\* RoleRepository.delete: raises ValueError for a system role; otherwise
\* the row and its rows of the association table are removed.
role_repo_delete(d, role) ==
    IF d.roles[role].is_system_role
    THEN [raised |-> TRUE, db |-> d]
    ELSE [raised |-> FALSE,
          db |-> [d EXCEPT !.roles = [r \in DOMAIN d.roles \ {role} |-> d.roles[r]],
                           !.role_permissions =
                               {rp \in d.role_permissions : rp[1] # role}]]

update_role_handler(d, token, role_id, role_in) ==
    LET guard == require_admin(d, token)
        role == role_repo_get_by_id(d, role_id)
        updated == role_repo_update(d, role, role_in)
    IN  IF ~guard.ok
        THEN [db |-> d, response |-> HTTPException(guard.status, guard.detail)]
        ELSE IF role = NULL
        THEN [db |-> d, response |-> APIResponse(HTTP_404_NOT_FOUND, "Role not found")]
        ELSE IF ~roles_constraints_ok(updated.roles)
        THEN [db |-> d, response |-> sqlalchemy_exception_handler]
        ELSE [db |-> updated,
              response |-> APIResponse(HTTP_200_OK, "Role updated successfully")]

create_role_handler(d, token, role_in) ==
    LET guard == require_admin(d, token)
        created == role_repo_create(d, role_in)
    IN  IF ~guard.ok
        THEN [db |-> d, response |-> HTTPException(guard.status, guard.detail)]
        ELSE IF role_repo_code_exists(d, role_in.code)
        THEN [db |-> d, response |-> APIResponse(HTTP_400_BAD_REQUEST,
                                                 "Role code already exists")]
        ELSE IF ~roles_constraints_ok(created.roles)
        THEN [db |-> d, response |-> sqlalchemy_exception_handler]
        ELSE [db |-> created,
              response |-> APIResponse(HTTP_201_CREATED, "Role created successfully")]

\* A delete_role that removes the row whatever its is_system_role flag
\* (sensitivity of the built-in roles to the check).
delete_role_handler_unchecked(d, token, role_id) ==
    LET guard == require_admin(d, token)
        role == role_repo_get_by_id(d, role_id)
    IN  IF ~guard.ok
        THEN [db |-> d, response |-> HTTPException(guard.status, guard.detail)]
        ELSE IF role = NULL
        THEN [db |-> d, response |-> APIResponse(HTTP_404_NOT_FOUND, "Role not found")]
        ELSE [db |-> [d EXCEPT !.roles = [r \in DOMAIN d.roles \ {role} |-> d.roles[r]],
                               !.role_permissions =
                                   {rp \in d.role_permissions : rp[1] # role}],
              response |-> APIResponse(HTTP_200_OK, "Role deleted successfully")]

delete_role_handler(d, token, role_id) ==
    LET guard == require_admin(d, token)
        role == role_repo_get_by_id(d, role_id)
        deleted == role_repo_delete(d, role)
    IN  IF ~guard.ok
        THEN [db |-> d, response |-> HTTPException(guard.status, guard.detail)]
        ELSE IF role = NULL
        THEN [db |-> d, response |-> APIResponse(HTTP_404_NOT_FOUND, "Role not found")]
        ELSE IF d.roles[role].is_system_role
        THEN [db |-> d, response |-> APIResponse(HTTP_400_BAD_REQUEST,
                                                 "Cannot delete system role")]
        ELSE IF deleted.raised
        THEN [db |-> d, response |-> general_exception_handler]
        ELSE [db |-> deleted.db,
              response |-> APIResponse(HTTP_200_OK, "Role deleted successfully")]

\* get_my_permissions (GET /me/permissions): any active user.
get_my_permissions_handler(d, token) ==
    LET guard == get_current_active_user(d, token)
    IN  IF ~guard.ok
        THEN [db |-> d, response |-> HTTPException(guard.status, guard.detail)]
        ELSE LET permissions == get_user_permissions(d, d.users[guard.user])
             IN  [db |-> d,
                  response |-> [status |-> HTTP_200_OK,
                                message |-> "User permissions retrieved successfully",
                                permissions |-> {d.permissions[p].code : p \in permissions}]]

---------------------------------------------------------------------------
(* app.routers.departments: the admin-only department handlers.  They      *)
(* answer with the Department schema (status 200 or 201) or raise an       *)
(* HTTPException.                                                          *)

list_departments_handler(d, token, query) ==
    LET guard == require_admin(d, token)
        departments == department_repo_get_all(d, query)
    IN  IF ~guard.ok
        THEN [db |-> d, response |-> HTTPException(guard.status, guard.detail)]
        ELSE [db |-> d,
              response |-> [status |-> HTTP_200_OK, message |-> "",
                            items |-> {[id |-> i,
                                        user_count |->
                                            department_repo_get_user_count(d, i)] :
                                       i \in departments},
                            total |-> Cardinality(departments)]]

get_department_handler(d, token, department_id) ==
    LET guard == require_admin(d, token)
        department == department_repo_get_by_id(d, department_id)
    IN  IF ~guard.ok
        THEN [db |-> d, response |-> HTTPException(guard.status, guard.detail)]
        ELSE IF department = NULL
        THEN [db |-> d, response |-> HTTPException(HTTP_404_NOT_FOUND,
                                                   "Department not found")]
        ELSE [db |-> d,
              response |-> [status |-> HTTP_200_OK, message |-> "",
                            id |-> department,
                            user_count |->
                                department_repo_get_user_count(d, department)]]

create_department_handler(d, token, department_in) ==
    LET guard == require_admin(d, token)
        existing == department_repo_get_by_code(d, department_in.code, NULL)
        created == department_repo_create(d, department_in)
    IN  IF ~guard.ok
        THEN [db |-> d, response |-> HTTPException(guard.status, guard.detail)]
        ELSE IF existing # NULL
        THEN [db |-> d, response |-> HTTPException(HTTP_400_BAD_REQUEST,
                                                   "Department with code already exists")]
        ELSE IF ~departments_constraints_ok(created)
        THEN [db |-> d, response |-> sqlalchemy_exception_handler]
        ELSE [db |-> [d EXCEPT !.departments = created],
              response |-> [status |-> HTTP_201_CREATED, message |-> "",
                            id |-> Len(created), user_count |-> 0]]

update_department_handler(d, token, department_id, department_in) ==
    LET guard == require_admin(d, token)
        department == department_repo_get_by_id(d, department_id)
        existing == department_repo_get_by_code(d, department_in.code, department_id)
        updated == department_repo_update(d, department, department_in)
    IN  IF ~guard.ok
        THEN [db |-> d, response |-> HTTPException(guard.status, guard.detail)]
        ELSE IF department = NULL
        THEN [db |-> d, response |-> HTTPException(HTTP_404_NOT_FOUND,
                                                   "Department not found")]
        ELSE IF "code" \in DOMAIN department_in /\ existing # NULL
        THEN [db |-> d, response |-> HTTPException(HTTP_400_BAD_REQUEST,
                                                   "Department with code already exists")]
        ELSE IF ~departments_constraints_ok(updated)
        THEN [db |-> d, response |-> sqlalchemy_exception_handler]
        ELSE [db |-> [d EXCEPT !.departments = updated],
              response |-> [status |-> HTTP_200_OK, message |-> "",
                            id |-> department,
                            user_count |->
                                department_repo_get_user_count(d, department)]]

delete_department_handler(d, token, department_id) ==
    LET guard == require_admin(d, token)
        department == department_repo_get_by_id(d, department_id)
        user_count == department_repo_get_user_count(d, department_id)
    IN  IF ~guard.ok
        THEN [db |-> d, response |-> HTTPException(guard.status, guard.detail)]
        ELSE IF department = NULL
        THEN [db |-> d, response |-> HTTPException(HTTP_404_NOT_FOUND,
                                                   "Department not found")]
        ELSE IF user_count > 0
        THEN [db |-> d,
              response |-> HTTPException(HTTP_400_BAD_REQUEST,
                                         "Cannot delete department with assigned user(s)")]
        ELSE [db |-> [d EXCEPT !.departments = department_repo_delete(d, department)],
              response |-> [status |-> HTTP_200_OK,
                            message |-> "Department deleted successfully",
                            department_id |-> department_id]]

---------------------------------------------------------------------------
(* app.schemas.audit_log.AuditLogFilter, AuditLogRepository.get_all / count *)
(* and app.routers.audit_logs.  audit_logs is in the order of the          *)
(* timestamps; an entry's id is its index.                                 *)

\* A filter that accepts every limit from 1 up (sensitivity of the listing
\* to the upper bound of the query parameter).
AuditLogFilter_valid_without_le(filters) ==
    /\ filters.skip >= 0
    /\ filters.limit >= AuditLogFilter_limit_ge

\* AuditLogFilter: skip has ge=0, limit has ge=1 and le=200.
AuditLogFilter_valid(filters) ==
    /\ filters.skip >= 0
    /\ filters.limit >= AuditLogFilter_limit_ge
    /\ filters.limit <= AuditLogFilter_limit_le

min(a, b) == IF a <= b THEN a ELSE b

\* The ids of the entries that satisfy the status filter, most recent first.
audit_log_repo_matching(d, filters) ==
    LET ids == [i \in 1..Len(d.audit_logs) |-> Len(d.audit_logs) + 1 - i]
        matches(i) == "status" \in DOMAIN filters
                          => d.audit_logs[i].status = filters.status
    IN  SelectSeq(ids, matches)

\* AuditLogRepository.get_all: order_by(desc(timestamp)).offset(skip).limit(limit)
\* with limit = min(limit, 200).
audit_log_repo_get_all(d, filters) ==
    LET limit == min(filters.limit, get_all_limit_max)
        rows == audit_log_repo_matching(d, filters)
    IN  SubSeq(rows, filters.skip + 1, min(Len(rows), filters.skip + limit))

audit_log_repo_count(d, filters) == Len(audit_log_repo_matching(d, filters))

audit_log_repo_get_by_id(d, audit_log_id) ==
    scalar_one_or_none({i \in DOMAIN d.audit_logs : i = audit_log_id})

\* list_audit_logs: the admin guard, then the validation of the query
\* parameters (a request that fails it does not reach the handler body),
\* then the page; skip and limit of the page are those of the filter.
list_audit_logs_handler(d, token, filters) ==
    LET guard == require_admin(d, token)
    IN  IF ~guard.ok
        THEN [db |-> d, response |-> HTTPException(guard.status, guard.detail)]
        ELSE IF ~AuditLogFilter_valid(filters)
        THEN [db |-> d, response |-> validation_exception_handler]
        ELSE [db |-> d,
              response |-> [status |-> HTTP_200_OK, message |-> "",
                            items |-> audit_log_repo_get_all(d, filters),
                            total |-> audit_log_repo_count(d, filters),
                            skip |-> filters.skip,
                            limit |-> filters.limit]]

get_audit_log_handler(d, token, audit_log_id) ==
    LET guard == require_admin(d, token)
        audit_log == audit_log_repo_get_by_id(d, audit_log_id)
    IN  IF ~guard.ok
        THEN [db |-> d, response |-> HTTPException(guard.status, guard.detail)]
        ELSE IF audit_log = NULL
        THEN [db |-> d, response |-> HTTPException(HTTP_404_NOT_FOUND,
                                                   "Audit log not found")]
        ELSE [db |-> d,
              response |-> [status |-> HTTP_200_OK, message |-> "",
                            item |-> d.audit_logs[audit_log]]]

---------------------------------------------------------------------------
(* The store after installation: the administrator of                      *)
(* scripts/seed_admin_users.py, a department of scripts/seed_departments.py *)
(* and the catalog of SYSTEM_PERMISSIONS / SYSTEM_ROLES (two permissions   *)
(* of it, one granted to OPERATIONS and one to CXO, both to ADMIN).        *)

SeedUsers ==
    <<[email |-> "admin@revenueguardian.com", username |-> "admin",
       password_hash |-> get_password_hash("Admin@123"), role |-> ADMIN,
       department_id |-> NULL, is_active |-> TRUE, is_deleted |-> FALSE]>>

SeedDepartments ==
    <<[name |-> "Information Technology", code |-> "IT",
       is_active |-> TRUE, is_deleted |-> FALSE]>>

SeedPermissions ==
    <<[code |-> "reconciliation.data.read", is_active |-> TRUE],
      [code |-> "dashboard.executive.read", is_active |-> TRUE]>>

SeedRoles ==
    <<[name |-> "Administrator", code |-> "ADMIN",
       is_system_role |-> TRUE, is_active |-> TRUE],
      [name |-> "Operations User", code |-> "OPERATIONS",
       is_system_role |-> TRUE, is_active |-> TRUE],
      [name |-> "Chief Executive Officer", code |-> "CXO",
       is_system_role |-> TRUE, is_active |-> TRUE]>>

SeedRolePermissions == {<<1, 1>>, <<1, 2>>, <<2, 1>>, <<3, 2>>}

SeedDb ==
    [users |-> SeedUsers, departments |-> SeedDepartments, audit_logs |-> <<>>,
     permissions |-> SeedPermissions, roles |-> SeedRoles,
     role_permissions |-> SeedRolePermissions]

NoRequest == [op |-> "none"]

NoResponse == [status |-> NULL, message |-> ""]

\* The requests served concurrently, by the session each one runs in.
Sessions == 1..MaxSessions

Idle == [op |-> "none", pc |-> "idle"]

NoSessions == [s \in Sessions |-> Idle]

Init ==
    /\ db = SeedDb
    /\ tokens = {}
    /\ audit_sink_ok = TRUE
    /\ request = NoRequest
    /\ response = NoResponse
    /\ sessions = NoSessions

---------------------------------------------------------------------------
(* Requests.  tokens holds the unexpired tokens clients hold; a request    *)
(* presents one of them or a token that does not decode.  request and      *)
(* response record the last request served and its answer.                 *)

RequestTokens == tokens \cup {BadToken}

UserIds == 1..MaxUsers

Apply(result) ==
    /\ db' = result.db
    /\ response' = result.response

\* POST /public/login
Login(email, password) ==
    LET result == login_handler(db, audit_sink_ok, email, password)
    IN  /\ Len(result.db.audit_logs) <= MaxAudit
        /\ Cardinality(tokens \cup result.issued) <= MaxTokens
        /\ Apply(result)
        /\ tokens' = tokens \cup result.issued
        /\ request' = [op |-> "login", email |-> email, password |-> password]
        /\ UNCHANGED <<audit_sink_ok, sessions>>

\* POST /users
CreateUser(token, user_in) ==
    LET result == create_user_handler(db, token, user_in)
    IN  /\ Len(result.db.users) <= MaxUsers
        /\ Apply(result)
        /\ request' = [op |-> "create_user", token |-> token, user_id |-> NULL,
                       user_in |-> user_in]
        /\ UNCHANGED <<tokens, audit_sink_ok, sessions>>

\* PATCH /users/{user_id}
UpdateUser(token, user_id, user_in) ==
    /\ Apply(update_user_handler(db, token, user_id, user_in))
    /\ request' = [op |-> "update_user", token |-> token, user_id |-> user_id,
                   user_in |-> user_in]
    /\ UNCHANGED <<tokens, audit_sink_ok, sessions>>

\* PUT /users/{user_id}/status
UpdateUserStatus(token, user_id, is_active) ==
    /\ Apply(update_user_status_handler(db, token, user_id, is_active))
    /\ request' = [op |-> "update_user_status", token |-> token, user_id |-> user_id]
    /\ UNCHANGED <<tokens, audit_sink_ok, sessions>>

\* DELETE /users/{user_id}
DeleteUser(token, user_id) ==
    /\ Apply(delete_user_handler(db, token, user_id))
    /\ request' = [op |-> "delete_user", token |-> token, user_id |-> user_id]
    /\ UNCHANGED <<tokens, audit_sink_ok, sessions>>

\* GET /users/{user_id}
GetUser(token, user_id) ==
    /\ Apply(get_user_handler(db, token, user_id))
    /\ request' = [op |-> "get_user", token |-> token, user_id |-> user_id]
    /\ UNCHANGED <<tokens, audit_sink_ok, sessions>>

\* A request to an endpoint that depends on require_role(required_role) and
\* does nothing else: the answer is the guard's.
role_checker_handler(d, required_role, token) ==
    LET guard == require_role(required_role, d, token)
    IN  IF ~guard.ok
        THEN [db |-> d, response |-> HTTPException(guard.status, guard.detail)]
        ELSE [db |-> d, response |-> APIResponse(HTTP_200_OK, "OK")]

RoleChecker(required_role, token) ==
    /\ Apply(role_checker_handler(db, required_role, token))
    /\ request' = [op |-> "role_checker", token |-> token,
                   required_role |-> required_role]
    /\ UNCHANGED <<tokens, audit_sink_ok, sessions>>

\* A token reaches its expiry (ACCESS_TOKEN_EXPIRE_MINUTES): it no longer
\* decodes, like BadToken.
ExpireToken(token) ==
    /\ token \in tokens
    /\ tokens' = tokens \ {token}
    /\ request' = [op |-> "expire_token"]
    /\ response' = NoResponse
    /\ UNCHANGED <<db, audit_sink_ok, sessions>>

\* The database starts or stops accepting audit writes.
AuditSinkChanges ==
    /\ audit_sink_ok' = ~audit_sink_ok
    /\ request' = [op |-> "audit_sink"]
    /\ response' = NoResponse
    /\ UNCHANGED <<db, tokens, sessions>>

---------------------------------------------------------------------------
(* User management and the guard chain: the audit store accepts writes.    *)

UserCreateBodies ==
    [email : {"bob@x.com"}, username : {"bob"}, password : {"Other@123"},
     role : UserRole, department_id : {NULL}]

UserUpdateBodies == [is_active : BOOLEAN] \cup [role : UserRole]

Next ==
    \/ \E email \in Emails, password \in Passwords : Login(email, password)
    \/ \E token \in RequestTokens, user_in \in UserCreateBodies :
          CreateUser(token, user_in)
    \/ \E token \in RequestTokens, user_id \in UserIds, user_in \in UserUpdateBodies :
          UpdateUser(token, user_id, user_in)
    \/ \E token \in RequestTokens, user_id \in UserIds, is_active \in BOOLEAN :
          UpdateUserStatus(token, user_id, is_active)
    \/ \E token \in RequestTokens, user_id \in UserIds : DeleteUser(token, user_id)
    \/ \E token \in RequestTokens, user_id \in UserIds : GetUser(token, user_id)
    \/ \E required_role \in UserRole, token \in RequestTokens :
          RoleChecker(required_role, token)
    \/ \E token \in tokens : ExpireToken(token)

Spec == Init /\ [][Next]_vars

---------------------------------------------------------------------------
(* Properties of the guard chain and of login, under Spec.                 *)

\* Every validly signed token whose subject is user u, whatever its other claims.
TokensOfSubject(u) == [sig : {"valid"}, sub : {u}, email : Emails, role : UserRole]

TokenUniverse == UNION {TokensOfSubject(u) : u \in UserIds} \cup {BadToken}

Rejected401(d, u) ==
    \A t \in TokensOfSubject(u) : get_current_user(d, t) = credentials_exception

\* C5: once delete_user(u) has completed, get_current_user answers 401 for
\* every token whose subject is u, tokens issued before the deletion
\* included, and no later step makes such a token accepted again: a step
\* that completes a deletion leaves u deleted and rejected, and every step
\* from a state where u is deleted leaves u deleted and rejected.
C5_DeletedUserStaysRejected ==
    [][/\ (request'.op = "delete_user" /\ response'.status = HTTP_200_OK)
              => /\ db'.users[request'.user_id].is_deleted
                 /\ Rejected401(db', request'.user_id)
       /\ \A u \in DOMAIN db.users :
              db.users[u].is_deleted
                  => /\ Rejected401(db, u)
                     /\ u \in DOMAIN db'.users
                     /\ db'.users[u].is_deleted
                     /\ Rejected401(db', u)]_vars

\* A token issued by a login before the deletion, still unexpired, was
\* presented after the deletion of its subject and answered 401.
C5_Witness ==
    /\ request.op = "get_user"
    /\ request.token \in tokens
    /\ request.token.sub \in DOMAIN db.users
    /\ db.users[request.token.sub].is_deleted
    /\ response.status = HTTP_401_UNAUTHORIZED

\* The stored user a token authenticates as an active user, or NULL.
ActiveUserOf(d, t) ==
    IF /\ t.sig = "valid"
       /\ t.sub \in DOMAIN d.users
       /\ ~d.users[t.sub].is_deleted
       /\ d.users[t.sub].is_active
    THEN t.sub ELSE NULL

\* C9: require_role(r) admits an authenticated active user iff the stored
\* role equals r exactly, and answers 403 for every other role; the answer
\* of a role-guarded request says the same.
C9_RequireRoleIsStrictEquality ==
    /\ \A t \in TokenUniverse, r \in UserRole :
          LET u == ActiveUserOf(db, t)
          IN  u # NULL =>
                /\ require_role(r, db, t).ok <=> db.users[u].role = r
                /\ db.users[u].role # r
                      => require_role(r, db, t).status = HTTP_403_FORBIDDEN
    /\ request.op = "role_checker" /\ ActiveUserOf(db, request.token) # NULL
          => LET role == db.users[ActiveUserOf(db, request.token)].role
             IN  /\ response.status = HTTP_200_OK <=> role = request.required_role
                 /\ role # request.required_role
                       => response.status = HTTP_403_FORBIDDEN

\* An active Administrator was rejected with 403 by require_operations.
C9_Witness ==
    /\ request.op = "role_checker"
    /\ request.required_role = OPERATIONS
    /\ ActiveUserOf(db, request.token) # NULL
    /\ db.users[ActiveUserOf(db, request.token)].role = ADMIN
    /\ response.status = HTTP_403_FORBIDDEN

\* The requests that pass through require_role, and the role each requires.
RoleGuardedOps ==
    {"create_user", "update_user", "update_user_status", "delete_user", "role_checker"}

RequiredRoleOf(req) ==
    IF req.op = "role_checker" THEN req.required_role ELSE ADMIN

GuardAnswers ==
    {"Could not validate credentials", "Inactive user", "Insufficient permissions"}

\* C10: for every request to a role-guarded endpoint the first failing
\* check, in the order token validation, user load, active check, role
\* check, decides the answer: 401 when the token does not decode or its
\* subject is not an existing non-deleted user, otherwise 403 "Inactive
\* user" when is_active is false whatever the role, otherwise 403 on a role
\* mismatch; the store is left unchanged in all three cases, and the
\* handler body answers only when all four checks passed.
C10_GuardOrderDecidesOutcome ==
    [][request'.op \in RoleGuardedOps =>
          LET t == request'.token
              r == RequiredRoleOf(request')
          IN  IF ~(/\ t.sig = "valid"
                   /\ t.sub \in DOMAIN db.users
                   /\ ~db.users[t.sub].is_deleted)
              THEN /\ response'.status = HTTP_401_UNAUTHORIZED
                   /\ response'.message = "Could not validate credentials"
                   /\ db' = db
              ELSE IF ~db.users[t.sub].is_active
              THEN /\ response'.status = HTTP_403_FORBIDDEN
                   /\ response'.message = "Inactive user"
                   /\ db' = db
              ELSE IF db.users[t.sub].role # r
              THEN /\ response'.status = HTTP_403_FORBIDDEN
                   /\ response'.message = "Insufficient permissions"
                   /\ db' = db
              ELSE response'.message \notin GuardAnswers]_vars

\* A deactivated user whose role is not the required one asked for an
\* admin-only operation and was answered 403 "Inactive user".
C10_Witness ==
    /\ request.op \in RoleGuardedOps \ {"role_checker"}
    /\ request.token \in tokens
    /\ request.token.sub \in DOMAIN db.users
    /\ ~db.users[request.token.sub].is_deleted
    /\ ~db.users[request.token.sub].is_active
    /\ db.users[request.token.sub].role # ADMIN
    /\ response.status = HTTP_403_FORBIDDEN
    /\ response.message = "Inactive user"

\* The user a login with these credentials authenticates, as a set (empty
\* or one user): the email resolves to a user that is not soft-deleted, is
\* active and whose stored hash is the hash of the password.
Authenticates(d, email, password) ==
    {u \in DOMAIN d.users :
        /\ d.users[u].email = email
        /\ ~d.users[u].is_deleted
        /\ d.users[u].is_active
        /\ d.users[u].password_hash = <<"hash", password>>}

C11_GuardIgnoresAdvisoryClaims ==
    /\ \A u \in UserIds : \A t1, t2 \in TokensOfSubject(u) :
          /\ get_current_user(db, t1) = get_current_user(db, t2)
          /\ get_current_active_user(db, t1) = get_current_active_user(db, t2)
          /\ \A r \in UserRole : require_role(r, db, t1) = require_role(r, db, t2)
    /\ \A t \in tokens, r \in UserRole :
          require_role(r, db, t).ok
              <=> /\ ActiveUserOf(db, t) # NULL
                  /\ db.users[t.sub].role = r
    /\ request.op = "role_checker"
          => (response.status = HTTP_200_OK
                <=> /\ ActiveUserOf(db, request.token) # NULL
                    /\ db.users[request.token.sub].role = request.required_role)

\* A token issued to a user before an administrator changed the user's role
\* was presented to the guard of the role named in the token and refused.
C11_Witness ==
    /\ request.op = "role_checker"
    /\ request.token \in tokens
    /\ ActiveUserOf(db, request.token) # NULL
    /\ request.token.role = request.required_role
    /\ db.users[request.token.sub].role # request.token.role
    /\ response.status = HTTP_403_FORBIDDEN

\* The statuses of a validation response.
ValidationStatuses == {HTTP_400_BAD_REQUEST, HTTP_422_UNPROCESSABLE_ENTITY}

\* The stored users rows, soft-deleted ones included, other than row except
\* that hold the email or the username a body sets.
RowsOccupying(d, except, user_in) ==
    {u \in DOMAIN d.users \ {except} :
        \/ "email" \in DOMAIN user_in /\ d.users[u].email = user_in.email
        \/ "username" \in DOMAIN user_in /\ d.users[u].username = user_in.username}

\* C17: a create_user or update_user request of an administrator whose
\* email or username is held by another stored row, soft-deleted rows
\* included, is answered with a 400/422 validation response and leaves
\* the store unchanged.
C17_UniquenessViolationIsValidationFailure ==
    \A token \in RequestTokens :
        require_admin(db, token).ok =>
            /\ \A user_in \in UserCreateBodies :
                  RowsOccupying(db, NULL, user_in) # {}
                      => LET result == create_user_handler(db, token, user_in)
                         IN  /\ result.response.status \in ValidationStatuses
                             /\ result.db = db
            /\ \A user_id \in DOMAIN db.users :
               \A user_in \in [email : Emails] \cup [username : Usernames] :
                  (/\ ~db.users[user_id].is_deleted
                   /\ RowsOccupying(db, user_id, user_in) # {})
                      => LET result == update_user_handler(db, token, user_id, user_in)
                         IN  /\ result.response.status \in ValidationStatuses
                             /\ result.db = db

\* The user-management requests that target one user.
UserTargetOps == {"update_user", "update_user_status", "delete_user"}

\* C18: no request of an administrator against the user-management
\* endpoints (status update, delete, partial update) that targets the
\* administrator's own id deactivates or deletes that account: after the
\* request the account is still active and not deleted.
C18_AdminKeepsOwnAccount ==
    [][(/\ request'.op \in UserTargetOps
        /\ require_admin(db, request'.token).ok
        /\ request'.user_id = require_admin(db, request'.token).user)
          => /\ db'.users[request'.user_id].is_active
             /\ ~db'.users[request'.user_id].is_deleted]_vars

\* Every soft-deleted user of d is inactive and is returned by none of the
\* repository's lookups.
DeletedUsersInactiveAndHidden(d) ==
    \A u \in DOMAIN d.users :
        d.users[u].is_deleted
            => /\ ~d.users[u].is_active
               /\ user_repo_get_by_id(d, u) = NULL
               /\ user_repo_get_by_email(d, d.users[u].email) # u
               /\ user_repo_get_by_username(d, d.users[u].username) # u
               /\ u \notin user_repo_get_all(d)

\* C26: no request removes a users row or clears is_deleted, and before
\* and after every step each soft-deleted user is inactive and is returned
\* by none of get_by_id, get_by_email, get_by_username and get_all.
C26_SoftDeletionPermanentAndInactive ==
    [][/\ DOMAIN db.users \subseteq DOMAIN db'.users
       /\ \A u \in DOMAIN db.users :
             db.users[u].is_deleted => db'.users[u].is_deleted
       /\ DeletedUsersInactiveAndHidden(db)
       /\ DeletedUsersInactiveAndHidden(db')]_vars

\* An administrator asked to activate a soft-deleted user and was answered
\* 404; the user is still deleted and inactive.
C26_Witness ==
    /\ request.op = "update_user"
    /\ request.user_in = [is_active |-> TRUE]
    /\ require_admin(db, request.token).ok
    /\ request.user_id \in DOMAIN db.users
    /\ db.users[request.user_id].is_deleted
    /\ ~db.users[request.user_id].is_active
    /\ response.status = HTTP_404_NOT_FOUND

---------------------------------------------------------------------------
(* Login and the audit trail: the audit store may stop accepting writes.   *)

LoginCreateBodies ==
    [email : {"bob@x.com"}, username : {"bob"}, password : {"Other@123"},
     role : {OPERATIONS}, department_id : {NULL}]

LoginUpdateBodies == [is_active : BOOLEAN] \cup [password : Passwords]

NextLogin ==
    \/ \E email \in Emails, password \in Passwords : Login(email, password)
    \/ \E token \in RequestTokens, user_in \in LoginCreateBodies :
          CreateUser(token, user_in)
    \/ \E token \in RequestTokens, user_id \in UserIds, user_in \in LoginUpdateBodies :
          UpdateUser(token, user_id, user_in)
    \/ \E token \in RequestTokens, user_id \in UserIds : DeleteUser(token, user_id)
    \/ \E token \in tokens : ExpireToken(token)
    \/ AuditSinkChanges

SpecLogin == Init /\ [][NextLogin]_vars

\* C7: with an audit store that accepts writes, every login attempt appends
\* exactly one audit entry: (login, success, the authenticated user's id)
\* when the attempt succeeded, (login_failed, failure, no user id) when it
\* failed, also when the email is that of an existing user.
C7_OneAuditEntryPerLogin ==
    [][request'.op = "login" /\ audit_sink_ok =>
          LET us == Authenticates(db, request'.email, request'.password)
              n == Len(db.audit_logs)
          IN  /\ Len(db'.audit_logs) = n + 1
              /\ SubSeq(db'.audit_logs, 1, n) = db.audit_logs
              /\ LET entry == db'.audit_logs[n + 1]
                 IN  IF response'.status = HTTP_200_OK
                     THEN /\ entry.action_type = "login"
                          /\ entry.status = "success"
                          /\ entry.user_id \in us
                     ELSE /\ entry.action_type = "login_failed"
                          /\ entry.status = "failure"
                          /\ entry.user_id = NULL]_vars

\* A login with a wrong password for an existing active user was answered
\* 401 and left a login_failed entry without a user id as the last entry.
C7_Witness ==
    /\ request.op = "login"
    /\ audit_sink_ok
    /\ response.status = HTTP_401_UNAUTHORIZED
    /\ \E u \in DOMAIN db.users :
          /\ db.users[u].email = request.email
          /\ db.users[u].is_active /\ ~db.users[u].is_deleted
          /\ db.users[u].password_hash # get_password_hash(request.password)
    /\ db.audit_logs # <<>>
    /\ LET entry == db.audit_logs[Len(db.audit_logs)]
       IN  /\ entry.action_type = "login_failed"
           /\ entry.status = "failure"
           /\ entry.user_id = NULL
           /\ entry.description = <<"Failed login attempt for", request.email>>

\* Entries handed to log_audit: login entries and one whose description is
\* empty, which AuditLogCreate rejects.
SampleAuditEntries ==
    [user_id : {NULL, 1}, action_type : {"login", "login_failed"},
     status : {"success", "failure"}, severity : {""},
     description : {<<>>, <<"Failed login attempt for", "bob@x.com">>}]

\* C8: log_audit returns without raising whether the persistence call
\* succeeds or fails or the entry fails validation, and adds no entry when
\* it fails; a login served while the audit store rejects writes adds no
\* audit entry and answers with the status and body it would have answered
\* with had the store accepted the write.
C8_AuditFailureIsolation ==
    [][request'.op = "login" =>
          /\ \A sink \in BOOLEAN, entry \in SampleAuditEntries :
                LET logged == log_audit(db, sink, entry)
                IN  /\ ~logged.raised
                    /\ ~(sink /\ AuditLogCreate_valid(entry))
                          => logged.audit_logs = db.audit_logs
          /\ ~audit_sink_ok =>
                /\ db'.audit_logs = db.audit_logs
                /\ response' = login_handler(db, TRUE, request'.email,
                                             request'.password).response]_vars

---------------------------------------------------------------------------
(* The permission resolver over a changing catalog.  The store holds an    *)
(* administrator, an Operations user and a CXO user; the catalog holds the *)
(* two permissions, each active or not, and either the three system roles  *)
(* or no role yet; role updates change flags and associations.            *)

RbacUsers ==
    SeedUsers \o
    <<[email |-> "bob@x.com", username |-> "bob",
       password_hash |-> get_password_hash("Other@123"), role |-> OPERATIONS,
       department_id |-> NULL, is_active |-> TRUE, is_deleted |-> FALSE],
      [email |-> "carol@x.com", username |-> "carol",
       password_hash |-> get_password_hash("Other@123"), role |-> CXO,
       department_id |-> NULL, is_active |-> TRUE, is_deleted |-> FALSE]>>

RbacCatalogs ==
    {[SeedDb EXCEPT
        !.users = RbacUsers,
        !.permissions = [p \in DOMAIN SeedPermissions |->
                            [SeedPermissions[p] EXCEPT !.is_active = active[p]]],
        !.roles = IF seeded THEN SeedRoles ELSE <<>>,
        !.role_permissions = IF seeded THEN SeedRolePermissions ELSE {}] :
     active \in [DOMAIN SeedPermissions -> BOOLEAN], seeded \in BOOLEAN}

InitRBAC ==
    /\ db \in RbacCatalogs
    /\ tokens = {create_user_token(db, 1), create_user_token(db, 2)}
    /\ audit_sink_ok = TRUE
    /\ request = NoRequest
    /\ response = NoResponse
    /\ sessions = NoSessions

RoleIds == 1..MaxRoles

RoleUpdateBodies == [is_active : BOOLEAN] \cup [permission_ids : {{}, {1}, {1, 2}}]

CatalogCodes == {SeedPermissions[p].code : p \in DOMAIN SeedPermissions}

\* The codes asked for: those of the catalog and one it does not hold.
PermissionCodes == CatalogCodes \cup {"no.such.permission"}

\* The lists asked for, and all lists of at most MaxCodes codes.
AskedCodeLists == UNION {[1..n -> CatalogCodes] : n \in 0..MaxCodes}

CodeLists == UNION {[1..n -> PermissionCodes] : n \in 0..MaxCodes}

\* PUT /roles/{role_id}
UpdateRole(token, role_id, role_in) ==
    /\ Apply(update_role_handler(db, token, role_id, role_in))
    /\ request' = [op |-> "update_role", token |-> token, role_id |-> role_id]
    /\ UNCHANGED <<tokens, audit_sink_ok, sessions>>

\* GET /me/permissions
GetMyPermissions(token) ==
    /\ Apply(get_my_permissions_handler(db, token))
    /\ request' = [op |-> "get_my_permissions", token |-> token]
    /\ UNCHANGED <<tokens, audit_sink_ok, sessions>>

\* Calls of the resolver for a stored user, as the permission decorators
\* make them; the answer records what the call returned.
UserHasPermission(user, permission_code) ==
    /\ request' = [op |-> "user_has_permission", user |-> user,
                   permission_code |-> permission_code]
    /\ response' = [result |-> user_has_permission(db, db.users[user], permission_code)]
    /\ UNCHANGED <<db, tokens, audit_sink_ok, sessions>>

UserHasAnyPermission(user, permission_codes) ==
    /\ request' = [op |-> "user_has_any_permission", user |-> user,
                   permission_codes |-> permission_codes]
    /\ response' = [result |-> user_has_any_permission(db, db.users[user],
                                                       permission_codes)]
    /\ UNCHANGED <<db, tokens, audit_sink_ok, sessions>>

UserHasAllPermissions(user, permission_codes) ==
    /\ request' = [op |-> "user_has_all_permissions", user |-> user,
                   permission_codes |-> permission_codes]
    /\ response' = [result |-> user_has_all_permissions(db, db.users[user],
                                                        permission_codes)]
    /\ UNCHANGED <<db, tokens, audit_sink_ok, sessions>>

GetUserPermissions(user) ==
    /\ request' = [op |-> "get_user_permissions", user |-> user]
    /\ response' = [result |-> get_user_permissions(db, db.users[user])]
    /\ UNCHANGED <<db, tokens, audit_sink_ok, sessions>>

NextRBAC ==
    \/ \E token \in RequestTokens, role_id \in RoleIds, role_in \in RoleUpdateBodies :
          UpdateRole(token, role_id, role_in)
    \/ \E token \in RequestTokens : GetMyPermissions(token)
    \/ \E user \in DOMAIN db.users, permission_code \in PermissionCodes :
          UserHasPermission(user, permission_code)
    \/ \E user \in DOMAIN db.users, permission_codes \in AskedCodeLists :
          UserHasAnyPermission(user, permission_codes)
    \/ \E user \in DOMAIN db.users, permission_codes \in AskedCodeLists :
          UserHasAllPermissions(user, permission_codes)
    \/ \E user \in DOMAIN db.users : GetUserPermissions(user)

SpecRBAC == InitRBAC /\ [][NextRBAC]_vars

---------------------------------------------------------------------------
(* Properties of the permission resolver, under SpecRBAC.                  *)

\* The role code of a non-administrator role value.
RoleCodeOf(role_value) ==
    CASE role_value = OPERATIONS -> "OPERATIONS"
      [] role_value = CXO -> "CXO"

ActivePermissions(d) == {p \in DOMAIN d.permissions : d.permissions[p].is_active}

\* Permission p is attached to an active role whose code is role_code.
AttachedToActiveRole(d, p, role_code) ==
    \E r \in DOMAIN d.roles :
        /\ d.roles[r].code = role_code
        /\ d.roles[r].is_active
        /\ <<r, p>> \in d.role_permissions

Administrators(d) == {u \in DOMAIN d.users : d.users[u].role = ADMIN}

NonAdministrators(d) == {u \in DOMAIN d.users : d.users[u].role \in {OPERATIONS, CXO}}

\* C1: for every Administrator and every permission code that is active in
\* the catalog, user_has_permission is true, whatever role_permissions
\* holds and whether the ADMIN role row exists or is active; a recorded
\* call says the same.
C1_AdminHasEveryActivePermission ==
    /\ \A u \in Administrators(db), p \in ActivePermissions(db) :
          user_has_permission(db, db.users[u], db.permissions[p].code)
    /\ (/\ request.op = "user_has_permission"
        /\ request.user \in Administrators(db)
        /\ \E p \in ActivePermissions(db) :
              db.permissions[p].code = request.permission_code)
          => response.result

\* An Administrator was granted an active permission that no active ADMIN
\* role row holds.
C1_Witness ==
    /\ request.op = "user_has_permission"
    /\ request.user \in Administrators(db)
    /\ \E p \in ActivePermissions(db) :
          /\ db.permissions[p].code = request.permission_code
          /\ ~AttachedToActiveRole(db, p, "ADMIN")
    /\ response.result

\* C2: for every non-administrator (role 2 or 3) and every code,
\* user_has_permission is true iff the catalog holds a permission with
\* exactly that code that is active and attached to the role whose code
\* matches the user's role, that role being active; a recorded call says
\* the same.
C2_NonAdminPermissionIffActiveGrant ==
    /\ \A u \in NonAdministrators(db), code \in PermissionCodes :
          user_has_permission(db, db.users[u], code)
              <=> \E p \in ActivePermissions(db) :
                      /\ db.permissions[p].code = code
                      /\ AttachedToActiveRole(db, p, RoleCodeOf(db.users[u].role))
    /\ (request.op = "user_has_permission" /\ request.user \in NonAdministrators(db))
          => (response.result
                <=> \E p \in ActivePermissions(db) :
                        /\ db.permissions[p].code = request.permission_code
                        /\ AttachedToActiveRole(db, p,
                                                RoleCodeOf(db.users[request.user].role)))

\* A non-administrator was refused an active permission attached to their
\* role because the role is inactive.
C2_Witness ==
    /\ request.op = "user_has_permission"
    /\ request.user \in NonAdministrators(db)
    /\ ~response.result
    /\ \E p \in ActivePermissions(db), r \in DOMAIN db.roles :
          /\ db.permissions[p].code = request.permission_code
          /\ db.roles[r].code = RoleCodeOf(db.users[request.user].role)
          /\ ~db.roles[r].is_active
          /\ <<r, p>> \in db.role_permissions

\* C3: for every user and every list of codes, user_has_any_permission is
\* the OR and user_has_all_permissions the AND of user_has_permission over
\* the elements of the list; for the empty list the first is false and the
\* second true; recorded calls say the same.
C3_AnyIsOrAllIsAnd ==
    /\ \A u \in DOMAIN db.users, codes \in CodeLists :
          /\ user_has_any_permission(db, db.users[u], codes)
                <=> \E i \in 1..Len(codes) :
                        user_has_permission(db, db.users[u], codes[i])
          /\ user_has_all_permissions(db, db.users[u], codes)
                <=> \A i \in 1..Len(codes) :
                        user_has_permission(db, db.users[u], codes[i])
    /\ \A u \in DOMAIN db.users :
          /\ ~user_has_any_permission(db, db.users[u], <<>>)
          /\ user_has_all_permissions(db, db.users[u], <<>>)
    /\ request.op = "user_has_any_permission"
          => (response.result
                <=> \E i \in 1..Len(request.permission_codes) :
                        user_has_permission(db, db.users[request.user],
                                            request.permission_codes[i]))
    /\ request.op = "user_has_all_permissions"
          => (response.result
                <=> \A i \in 1..Len(request.permission_codes) :
                        user_has_permission(db, db.users[request.user],
                                            request.permission_codes[i]))

\* A non-administrator who holds the second code of a list and not the
\* first was answered true by user_has_any_permission.
C3_Witness ==
    /\ request.op = "user_has_any_permission"
    /\ request.user \in NonAdministrators(db)
    /\ Len(request.permission_codes) = 2
    /\ ~user_has_permission(db, db.users[request.user], request.permission_codes[1])
    /\ user_has_permission(db, db.users[request.user], request.permission_codes[2])
    /\ response.result

\* C4: get_user_permissions returns to an Administrator exactly the active
\* permissions of the catalog, and to a non-administrator exactly the
\* active permissions attached to the active role matching the user's role
\* code: none when that role is inactive or absent, and never an inactive
\* permission; a recorded call says the same.
C4_UserPermissionsListing ==
    /\ \A u \in Administrators(db) :
          get_user_permissions(db, db.users[u]) = ActivePermissions(db)
    /\ \A u \in NonAdministrators(db) :
          LET code == RoleCodeOf(db.users[u].role)
          IN  /\ get_user_permissions(db, db.users[u])
                    = {p \in ActivePermissions(db) : AttachedToActiveRole(db, p, code)}
              /\ (~\E r \in DOMAIN db.roles :
                        db.roles[r].code = code /\ db.roles[r].is_active)
                    => get_user_permissions(db, db.users[u]) = {}
    /\ \A u \in DOMAIN db.users :
          get_user_permissions(db, db.users[u]) \subseteq ActivePermissions(db)
    /\ request.op = "get_user_permissions"
          => /\ response.result \subseteq ActivePermissions(db)
             /\ request.user \in Administrators(db)
                   => response.result = ActivePermissions(db)
             /\ request.user \in NonAdministrators(db)
                   => response.result
                         = {p \in ActivePermissions(db) :
                               AttachedToActiveRole(
                                   db, p, RoleCodeOf(db.users[request.user].role))}

\* An Administrator for whom no active ADMIN role row holds any permission
\* was listed the active permissions of a catalog that also holds an
\* inactive one.
C4_Witness ==
    /\ request.op = "get_user_permissions"
    /\ request.user \in Administrators(db)
    /\ ActivePermissions(db) # {}
    /\ ActivePermissions(db) # DOMAIN db.permissions
    /\ \A p \in DOMAIN db.permissions : ~AttachedToActiveRole(db, p, "ADMIN")
    /\ response.result = ActivePermissions(db)

\* The codes of the permissions get_user_permissions returns for a user.
ListedCodes(d, user) == {d.permissions[p].code : p \in get_user_permissions(d, user)}

\* The statement as made: for every stored user, the administrator
\* included, and every permission code, active, inactive or absent from the
\* catalog, user_has_permission is true exactly when the code is that of a
\* permission get_user_permissions returns.
C24_ResolverEntryPointsAgree ==
    \A u \in DOMAIN db.users, permission_code \in PermissionCodes :
        user_has_permission(db, db.users[u], permission_code)
            <=> permission_code \in ListedCodes(db, db.users[u])

\* C24 as the resolver has it: the entry points agree for every user who
\* is not an administrator and every code; for an administrator
\* user_has_permission is true for every code, while the codes listed are
\* exactly the active ones of the catalog, so the two agree on those and
\* differ on inactive and absent codes.
C24_EntryPointsAgreeUpToAdministratorBypass ==
    \A u \in DOMAIN db.users, permission_code \in PermissionCodes :
        LET user == db.users[u]
            active == \E p \in DOMAIN db.permissions :
                          /\ db.permissions[p].code = permission_code
                          /\ db.permissions[p].is_active
        IN  /\ user.role # ADMIN
                  => (user_has_permission(db, user, permission_code)
                         <=> permission_code \in ListedCodes(db, user))
            /\ user.role = ADMIN
                  => /\ user_has_permission(db, user, permission_code)
                     /\ permission_code \in ListedCodes(db, user) <=> active

\* The resolver was asked whether the administrator has a permission that
\* is inactive or absent, answered true, and the code is not among those
\* listed for the administrator.
C24_Witness ==
    /\ request.op = "user_has_permission"
    /\ db.users[request.user].role = ADMIN
    /\ response.result = TRUE
    /\ request.permission_code \notin ListedCodes(db, db.users[request.user])

---------------------------------------------------------------------------
(* Role management (routers/permissions.py): the built-in roles, custom    *)
(* roles created and deleted by an administrator.                          *)

InitRoles ==
    /\ db = [SeedDb EXCEPT !.users = RbacUsers]
    /\ tokens = {create_user_token(db, 1)}
    /\ audit_sink_ok = TRUE
    /\ request = NoRequest
    /\ response = NoResponse
    /\ sessions = NoSessions

RoleRowIds == 1..(Len(SeedRoles) + MaxCustomRoles)

RoleCreateBodies ==
    [name : {"Manager", "Administrator"}, code : {"manager", "MANAGER", "admin"},
     permission_ids : {{}, {1}}]

RoleManagementBodies == [is_active : BOOLEAN] \cup [permission_ids : {{}}]

\* POST /roles
CreateRole(token, role_in) ==
    LET result == create_role_handler(db, token, role_in)
    IN  /\ DOMAIN result.db.roles \subseteq RoleRowIds
        /\ Apply(result)
        /\ request' = [op |-> "create_role", token |-> token, role_id |-> NULL]
        /\ UNCHANGED <<tokens, audit_sink_ok, sessions>>

\* DELETE /roles/{role_id}
DeleteRole(token, role_id) ==
    /\ Apply(delete_role_handler(db, token, role_id))
    /\ request' = [op |-> "delete_role", token |-> token, role_id |-> role_id]
    /\ UNCHANGED <<tokens, audit_sink_ok, sessions>>

NextRoles ==
    \/ \E token \in RequestTokens, role_in \in RoleCreateBodies :
          CreateRole(token, role_in)
    \/ \E token \in RequestTokens, role_id \in RoleRowIds,
           role_in \in RoleManagementBodies :
          UpdateRole(token, role_id, role_in)
    \/ \E token \in RequestTokens, role_id \in RoleRowIds : DeleteRole(token, role_id)

SpecRoles == InitRoles /\ [][NextRoles]_vars

SystemRoleCodes == {"ADMIN", "OPERATIONS", "CXO"}

\* C12: a delete_role request for a role whose is_system_role flag is set
\* never succeeds and leaves the role, its flags and its permission
\* associations (the whole store) unchanged; from an administrator it is
\* answered 400 "Cannot delete system role".  Each of the three built-in
\* codes ADMIN, OPERATIONS and CXO is, in every reachable state, the code
\* of a stored system role.
C12_SystemRoleDeleteRefused ==
    [][/\ \A code \in SystemRoleCodes :
              \E r \in DOMAIN db'.roles :
                  db'.roles[r].code = code /\ db'.roles[r].is_system_role
       /\ (/\ request'.op = "delete_role"
           /\ request'.role_id \in DOMAIN db.roles
           /\ db.roles[request'.role_id].is_system_role)
              => /\ db' = db
                 /\ response'.status # HTTP_200_OK
                 /\ require_admin(db, request'.token).ok
                       => response' = APIResponse(HTTP_400_BAD_REQUEST,
                                                  "Cannot delete system role")]_vars

\* An administrator asked to delete the built-in CXO role, which had been
\* deactivated and stripped of its permissions, and was answered 400.
C12_Witness ==
    /\ request.op = "delete_role"
    /\ request.role_id \in DOMAIN db.roles
    /\ db.roles[request.role_id].code = "CXO"
    /\ db.roles[request.role_id].is_system_role
    /\ ~db.roles[request.role_id].is_active
    /\ {rp \in db.role_permissions : rp[1] = request.role_id} = {}
    /\ response.status = HTTP_400_BAD_REQUEST

\* C22: under role create, update and delete requests a role whose
\* is_system_role flag is set stays in the store with the same code and the
\* flag set, no role's flag changes, and a role that enters the store has
\* the flag cleared.
C22_SystemRolesStayAndCreatedRolesAreCustom ==
    [][/\ \A r \in DOMAIN db.roles :
             db.roles[r].is_system_role
                 => /\ r \in DOMAIN db'.roles
                    /\ db'.roles[r].code = db.roles[r].code
                    /\ db'.roles[r].is_system_role
       /\ \A r \in DOMAIN db.roles \cap DOMAIN db'.roles :
             db'.roles[r].is_system_role = db.roles[r].is_system_role
       /\ \A r \in DOMAIN db'.roles \ DOMAIN db.roles :
             ~db'.roles[r].is_system_role]_vars

\* A role was created through the API while a built-in role had been
\* deactivated: the new role is a custom role and the three built-in roles
\* are still system roles.
C22_Witness ==
    /\ request.op = "create_role"
    /\ response.status = HTTP_201_CREATED
    /\ \E r \in DOMAIN db.roles :
          db.roles[r].code = "MANAGER" /\ ~db.roles[r].is_system_role
    /\ \E r \in DOMAIN db.roles :
          db.roles[r].is_system_role /\ ~db.roles[r].is_active
    /\ Cardinality({r \in DOMAIN db.roles : db.roles[r].is_system_role})
          = Len(SeedRoles)

---------------------------------------------------------------------------
(* Department management (routers/departments.py) and the users that       *)
(* reference departments.                                                  *)

DeptUsers ==
    SeedUsers \o
    <<[email |-> "bob@x.com", username |-> "bob",
       password_hash |-> get_password_hash("Other@123"), role |-> OPERATIONS,
       department_id |-> NULL, is_active |-> TRUE, is_deleted |-> FALSE]>>

InitDepartments ==
    /\ db = [SeedDb EXCEPT !.users = DeptUsers]
    /\ tokens = {create_user_token(db, 1)}
    /\ audit_sink_ok = TRUE
    /\ request = NoRequest
    /\ response = NoResponse
    /\ sessions = NoSessions

DepartmentIds == 1..MaxDepartments

DepartmentCreateBodies ==
    [name : {"Finance"}, code : {"FIN", "it"}, is_active : {TRUE}]

DepartmentUpdateBodies == [is_active : {FALSE}] \cup [code : {"IT"}]

\* The query parameters given: the defaults only, or an is_active filter.
DepartmentQueries == [skip : {0}] \cup [is_active : {TRUE}]

DeptUserUpdateBodies == [department_id : {NULL} \cup DepartmentIds]

\* GET /departments/
ListDepartments(token, query) ==
    /\ Apply(list_departments_handler(db, token, query))
    /\ request' = [op |-> "list_departments", token |-> token,
                   department_id |-> NULL]
    /\ UNCHANGED <<tokens, audit_sink_ok, sessions>>

\* GET /departments/{department_id}
GetDepartment(token, department_id) ==
    /\ Apply(get_department_handler(db, token, department_id))
    /\ request' = [op |-> "get_department", token |-> token,
                   department_id |-> department_id]
    /\ UNCHANGED <<tokens, audit_sink_ok, sessions>>

\* POST /departments/
CreateDepartment(token, department_in) ==
    LET result == create_department_handler(db, token, department_in)
    IN  /\ Len(result.db.departments) <= MaxDepartments
        /\ Apply(result)
        /\ request' = [op |-> "create_department", token |-> token,
                       department_id |-> NULL]
        /\ UNCHANGED <<tokens, audit_sink_ok, sessions>>

\* PATCH /departments/{department_id}
UpdateDepartment(token, department_id, department_in) ==
    /\ Apply(update_department_handler(db, token, department_id, department_in))
    /\ request' = [op |-> "update_department", token |-> token,
                   department_id |-> department_id]
    /\ UNCHANGED <<tokens, audit_sink_ok, sessions>>

\* DELETE /departments/{department_id}
DeleteDepartment(token, department_id) ==
    /\ Apply(delete_department_handler(db, token, department_id))
    /\ request' = [op |-> "delete_department", token |-> token,
                   department_id |-> department_id]
    /\ UNCHANGED <<tokens, audit_sink_ok, sessions>>

NextDepartments ==
    \/ \E token \in RequestTokens, query \in DepartmentQueries :
          ListDepartments(token, query)
    \/ \E token \in RequestTokens, department_id \in DepartmentIds :
          GetDepartment(token, department_id)
    \/ \E token \in RequestTokens, department_in \in DepartmentCreateBodies :
          CreateDepartment(token, department_in)
    \/ \E token \in RequestTokens, department_id \in DepartmentIds,
           department_in \in DepartmentUpdateBodies :
          UpdateDepartment(token, department_id, department_in)
    \/ \E token \in RequestTokens, department_id \in DepartmentIds :
          DeleteDepartment(token, department_id)
    \/ \E token \in RequestTokens, user_id \in UserIds,
           user_in \in DeptUserUpdateBodies :
          UpdateUser(token, user_id, user_in)
    \/ \E token \in RequestTokens, user_id \in UserIds : DeleteUser(token, user_id)

SpecDepartments == InitDepartments /\ [][NextDepartments]_vars

\* The users rows that reference a department, soft-deleted users included.
UsersReferencing(d, department_id) ==
    {u \in DOMAIN d.users : d.users[u].department_id = department_id}

\* A department is visible: listed by default and found by get_by_id.
DepartmentVisible(d, department_id) ==
    /\ department_id \in department_repo_get_all(d, [skip |-> 0])
    /\ department_repo_get_by_id(d, department_id) # NULL

\* C13: an administrator's delete_department on an existing, non-deleted
\* department is answered 400 and changes nothing when some users row
\* references the department; when none does it is answered 200 and
\* soft-deletes that department only.  A soft-deleted department is in
\* neither the default listing nor get_by_id, stays so after every step,
\* and a repeated delete of it is answered 404.
C13_DepartmentDeleteRule ==
    [][/\ (/\ request'.op = "delete_department"
           /\ require_admin(db, request'.token).ok
           /\ request'.department_id \in DOMAIN db.departments)
              => LET dept == request'.department_id
                 IN  IF db.departments[dept].is_deleted
                     THEN /\ response'.status = HTTP_404_NOT_FOUND
                          /\ db' = db
                     ELSE IF UsersReferencing(db, dept) # {}
                     THEN /\ response'.status = HTTP_400_BAD_REQUEST
                          /\ db' = db
                     ELSE /\ response'.status = HTTP_200_OK
                          /\ db' = [db EXCEPT
                                       !.departments[dept].is_deleted = TRUE,
                                       !.departments[dept].is_active = FALSE]
                          /\ ~DepartmentVisible(db', dept)
       /\ \A dept \in DOMAIN db.departments :
              db.departments[dept].is_deleted
                  => /\ ~DepartmentVisible(db, dept)
                     /\ db'.departments[dept].is_deleted
                     /\ ~DepartmentVisible(db', dept)]_vars

\* A department referenced only by a soft-deleted user was refused
\* deletion with 400.
C13_Witness ==
    /\ request.op = "delete_department"
    /\ response.status = HTTP_400_BAD_REQUEST
    /\ UsersReferencing(db, request.department_id) # {}
    /\ \A u \in UsersReferencing(db, request.department_id) : db.users[u].is_deleted

\* A department without users was deleted, and the repeated delete was
\* answered 404.
C13_WitnessRepeated ==
    /\ request.op = "delete_department"
    /\ request.token \in tokens
    /\ request.department_id \in DOMAIN db.departments
    /\ db.departments[request.department_id].is_deleted
    /\ response.status = HTTP_404_NOT_FOUND

\* The departments, not soft-deleted and other than except, whose code
\* equals code when case is ignored.
DepartmentsWithCode(d, code, except) ==
    {i \in DOMAIN d.departments :
        /\ i # except
        /\ ~d.departments[i].is_deleted
        /\ lower(d.departments[i].code) = lower(code)}

\* C23: no two departments that are not soft-deleted have codes that are
\* equal ignoring case, and in every reachable state an administrator's
\* create_department or update_department whose code, ignoring case, is
\* that of another department that is not soft-deleted is answered 400 and
\* leaves the store unchanged.
C23_DepartmentCodesUniqueIgnoringCase ==
    /\ \A i \in DOMAIN db.departments :
          ~db.departments[i].is_deleted
              => DepartmentsWithCode(db, db.departments[i].code, i) = {}
    /\ \A token \in tokens :
          require_admin(db, token).ok
              => /\ \A department_in \in DepartmentCreateBodies :
                       DepartmentsWithCode(db, department_in.code, NULL) # {}
                           => LET result == create_department_handler(db, token, department_in)
                              IN  /\ result.response.status = HTTP_400_BAD_REQUEST
                                  /\ result.db = db
                 /\ \A department_id \in DOMAIN db.departments,
                       department_in \in DepartmentUpdateBodies :
                       (/\ ~db.departments[department_id].is_deleted
                        /\ "code" \in DOMAIN department_in
                        /\ DepartmentsWithCode(db, department_in.code, department_id) # {})
                           => LET result == update_department_handler(db, token, department_id,
                                                                      department_in)
                              IN  /\ result.response.status = HTTP_400_BAD_REQUEST
                                  /\ result.db = db
    /\ (request.op \in {"create_department", "update_department"}
            /\ response.status = HTTP_400_BAD_REQUEST)
          => \E i \in DOMAIN db.departments : ~db.departments[i].is_deleted

\* A create_department was answered 400 while the only departments that
\* are not soft-deleted have the code IT: the body's code was it.
C23_Witness ==
    /\ request.op = "create_department"
    /\ response.status = HTTP_400_BAD_REQUEST
    /\ \A i \in DOMAIN db.departments :
          ~db.departments[i].is_deleted => db.departments[i].code = "IT"
    /\ \E i \in DOMAIN db.departments : ~db.departments[i].is_deleted

\* C27: every user that is not soft-deleted and has a department_id
\* references a department that exists and is not soft-deleted.
C27_DepartmentReferencesValid ==
    \A u \in DOMAIN db.users :
        (~db.users[u].is_deleted /\ db.users[u].department_id # NULL)
            => /\ db.users[u].department_id \in DOMAIN db.departments
               /\ ~db.departments[db.users[u].department_id].is_deleted

\* The part of C27 the foreign key and delete_department keep: a stored
\* department_id is that of a stored row, and delete_department never
\* soft-deletes a department while a user references it.
DepartmentReferencesExistAndDeleteChecks ==
    [][/\ \A u \in DOMAIN db'.users :
             db'.users[u].department_id # NULL
                 => db'.users[u].department_id \in DOMAIN db'.departments
       /\ (request'.op = "delete_department" /\ response'.status = HTTP_200_OK)
             => UsersReferencing(db', request'.department_id) = {}]_vars

---------------------------------------------------------------------------
(* The audit trail and its queries (routers/audit_logs.py), next to the    *)
(* operations that write or could touch it.                                *)

InitAudit ==
    /\ db = [SeedDb EXCEPT !.users = DeptUsers]
    /\ tokens = {}
    /\ audit_sink_ok = TRUE
    /\ request = NoRequest
    /\ response = NoResponse
    /\ sessions = NoSessions

AuditLogIds == 1..MaxAudit

\* The query parameters: limit left at its default, at its bounds and
\* beyond them; an optional status filter.
AuditLogFilters ==
    [skip : {0, 1},
     limit : {AuditLogFilter_limit_ge, AuditLogFilter_limit_default,
              AuditLogFilter_limit_le, AuditLogFilter_limit_le + 1, 500}]
    \cup [skip : {0}, limit : {AuditLogFilter_limit_default}, status : {"failure"}]

\* GET /audit-logs/
ListAuditLogs(token, filters) ==
    /\ Apply(list_audit_logs_handler(db, token, filters))
    /\ request' = [op |-> "list_audit_logs", token |-> token, filters |-> filters]
    /\ UNCHANGED <<tokens, audit_sink_ok, sessions>>

\* GET /audit-logs/{audit_log_id}
GetAuditLog(token, audit_log_id) ==
    /\ Apply(get_audit_log_handler(db, token, audit_log_id))
    /\ request' = [op |-> "get_audit_log", token |-> token,
                   audit_log_id |-> audit_log_id]
    /\ UNCHANGED <<tokens, audit_sink_ok, sessions>>

NextAudit ==
    \/ \E email \in Emails, password \in Passwords : Login(email, password)
    \/ \E token \in RequestTokens, filters \in AuditLogFilters :
          ListAuditLogs(token, filters)
    \/ \E token \in RequestTokens, audit_log_id \in AuditLogIds :
          GetAuditLog(token, audit_log_id)
    \/ \E token \in RequestTokens, user_id \in UserIds : DeleteUser(token, user_id)
    \/ AuditSinkChanges

SpecAudit == InitAudit /\ [][NextAudit]_vars

\* C14 (as claimed): an administrator's listing with a limit above 200 is
\* served, and the page size of the response is 200.
C14_LimitAbove200IsClamped ==
    (/\ request.op = "list_audit_logs"
     /\ ActiveUserOf(db, request.token) # NULL
     /\ db.users[request.token.sub].role = ADMIN
     /\ request.filters.limit > AuditLogFilter_limit_le)
        => /\ response.status = HTTP_200_OK
           /\ response.limit = AuditLogFilter_limit_le
           /\ Len(response.items) <= AuditLogFilter_limit_le

\* C14 (amended): an administrator's listing with a limit above 200 is not
\* served: it is answered 422 by the validation of the query parameters
\* and returns no page.  A limit from 1 to 200 is served; the page size of
\* the response is the limit asked for and at most that many items are
\* returned, the most recent first.
C14_LimitAbove200IsRejected ==
    (/\ request.op = "list_audit_logs"
     /\ ActiveUserOf(db, request.token) # NULL
     /\ db.users[request.token.sub].role = ADMIN)
        => IF request.filters.limit > AuditLogFilter_limit_le
           THEN /\ response.status = HTTP_422_UNPROCESSABLE_ENTITY
                /\ "items" \notin DOMAIN response
           ELSE /\ response.status = HTTP_200_OK
                /\ response.limit = request.filters.limit
                /\ Len(response.items) <= request.filters.limit
                /\ \A i, j \in 1..Len(response.items) :
                      i < j => response.items[i] > response.items[j]

\* An administrator asked for limit=500 and was answered 422.
C14_Witness ==
    /\ request.op = "list_audit_logs"
    /\ ActiveUserOf(db, request.token) # NULL
    /\ db.users[request.token.sub].role = ADMIN
    /\ request.filters.limit = 500
    /\ Len(db.audit_logs) > 0
    /\ response.status = HTTP_422_UNPROCESSABLE_ENTITY

---------------------------------------------------------------------------
(* The audit trail under the operations of every router: login, user,     *)
(* department and role management, audit queries.                          *)

TrailUserUpdateBodies == [is_active : {FALSE}] \cup [role : {CXO}]

NextTrail ==
    \/ \E email \in Emails, password \in Passwords : Login(email, password)
    \/ \E token \in tokens, filters \in [skip : {0}, limit : {1}] :
          ListAuditLogs(token, filters)
    \/ \E token \in tokens, audit_log_id \in AuditLogIds :
          GetAuditLog(token, audit_log_id)
    \/ \E token \in tokens, user_id \in UserIds, user_in \in TrailUserUpdateBodies :
          UpdateUser(token, user_id, user_in)
    \/ \E token \in tokens, user_id \in UserIds : DeleteUser(token, user_id)
    \/ \E token \in tokens, department_id \in DepartmentIds :
          DeleteDepartment(token, department_id)
    \/ \E token \in tokens, role_id \in RoleIds :
          UpdateRole(token, role_id, [is_active |-> FALSE])
    \/ \E token \in tokens, role_id \in RoleIds : DeleteRole(token, role_id)
    \/ AuditSinkChanges

SpecTrail == InitAudit /\ [][NextTrail]_vars

\* C15: the audit trail is append-only: every step of every operation
\* leaves each entry already written in its place with all fields
\* unchanged, so the trail before the step is a prefix of the trail after.
C15_AuditTrailAppendOnly ==
    [][/\ Len(db'.audit_logs) >= Len(db.audit_logs)
       /\ \A i \in 1..Len(db.audit_logs) : db'.audit_logs[i] = db.audit_logs[i]]_vars

\* A user whose login is in the trail was soft-deleted, and the entry is
\* still there, after another entry was written behind it.
C15_Witness ==
    /\ request.op = "delete_user"
    /\ response.status = HTTP_200_OK
    /\ Len(db.audit_logs) > 1
    /\ db.audit_logs[1].user_id = request.user_id
    /\ db.users[request.user_id].is_deleted

---------------------------------------------------------------------------
(* Internal failures: requests that end in 500 and the error path of the   *)
(* audit recorder.                                                         *)

InitErrors ==
    /\ db = [SeedDb EXCEPT !.users = DeptUsers]
    /\ tokens = {create_user_token(db, 1)}
    /\ audit_sink_ok = TRUE
    /\ request = NoRequest
    /\ response = NoResponse
    /\ sessions = NoSessions

\* Exceptions of the classes determine_severity names, of subclasses of
\* them and of classes it does not name.
Exceptions ==
    {Exception("SystemError", {}), Exception("MemoryError", {}),
     Exception("RuntimeError", {}), Exception("RecursionError", {"RuntimeError"}),
     Exception("ValidationError", {"ValueError"}), Exception("ValueError", {}),
     Exception("TypeError", {}), Exception("UnicodeDecodeError", {"ValueError"}),
     Exception("KeyError", {"LookupError"}), Exception("Exception", {})}

ErrorSeverity == {"warning", "error", "critical"}

\* GET /users/
ListUsers(token) ==
    LET result == list_users_handler(db, audit_sink_ok, token)
    IN  /\ Len(result.db.audit_logs) <= MaxAudit
        /\ Apply(result)
        /\ request' = [op |-> "list_users", token |-> token, user_id |-> NULL]
        /\ UNCHANGED <<tokens, audit_sink_ok, sessions>>

\* A request whose handler raised exc, an exception no other handler is
\* registered for.
UnhandledException(exc) ==
    LET result == handle_general_exception(db, audit_sink_ok, exc)
    IN  /\ Len(result.db.audit_logs) <= MaxAudit
        /\ Apply(result)
        /\ request' = [op |-> "unhandled_exception", error |-> exc]
        /\ UNCHANGED <<tokens, audit_sink_ok, sessions>>

\* A call of log_error that passes a severity.
LogError(error, severity) ==
    LET logged == log_error(db, audit_sink_ok, error, <<"Error:", error.class>>,
                            NULL, severity)
    IN  /\ Len(logged.audit_logs) <= MaxAudit
        /\ db' = [db EXCEPT !.audit_logs = logged.audit_logs]
        /\ request' = [op |-> "log_error", error |-> error, passed |-> TRUE,
                       severity |-> severity]
        /\ response' = NoResponse
        /\ UNCHANGED <<tokens, audit_sink_ok, sessions>>

\* A call of log_error that leaves severity to its default.
LogErrorDefault(error) ==
    LET logged == log_error(db, audit_sink_ok, error, <<"Error:", error.class>>,
                            NULL, log_error_default_severity)
    IN  /\ Len(logged.audit_logs) <= MaxAudit
        /\ db' = [db EXCEPT !.audit_logs = logged.audit_logs]
        /\ request' = [op |-> "log_error", error |-> error, passed |-> FALSE,
                       severity |-> log_error_default_severity]
        /\ response' = NoResponse
        /\ UNCHANGED <<tokens, audit_sink_ok, sessions>>

NextErrors ==
    \/ \E token \in RequestTokens : ListUsers(token)
    \/ \E token \in RequestTokens, user_id \in UserIds,
           user_in \in DeptUserUpdateBodies :
          UpdateUser(token, user_id, user_in)
    \/ \E exc \in Exceptions : UnhandledException(exc)
    \/ AuditSinkChanges

SpecErrors == InitErrors /\ [][NextErrors]_vars

\* C16: every request answered with a 500 status has gone through the
\* error path of the audit recorder: when the audit store accepts writes,
\* the step that answers 500 appends an entry with status error to the
\* trail, for an unclassified exception and for a database error alike.
C16_Every500IsRecorded ==
    [][(response'.status = HTTP_500_INTERNAL_SERVER_ERROR /\ audit_sink_ok)
          => /\ Len(db'.audit_logs) = Len(db.audit_logs) + 1
             /\ db'.audit_logs[Len(db'.audit_logs)].status = "error"]_vars

\* The part of C16 that holds: a 500 answer of the handler registered for
\* Exception ("An unexpected error occurred") comes with an entry of status
\* error and action exception_raised when the audit store accepts writes.
UnclassifiedExceptionIsRecorded ==
    [][(response' = general_exception_handler /\ audit_sink_ok)
          => /\ Len(db'.audit_logs) = Len(db.audit_logs) + 1
             /\ db'.audit_logs[Len(db'.audit_logs)].status = "error"
             /\ db'.audit_logs[Len(db'.audit_logs)].action_type
                    = "exception_raised"]_vars

---------------------------------------------------------------------------
(* The resolver for users rows whose role column holds a value outside     *)
(* UserRole (the column is a plain Integer).                               *)

UnmappedRoleValues == {-1, 4, 7}

UnmappedUsers(role_value) ==
    DeptUsers \o
    <<[email |-> "dave@x.com", username |-> "dave",
       password_hash |-> get_password_hash("Other@123"), role |-> role_value,
       department_id |-> NULL, is_active |-> TRUE, is_deleted |-> FALSE]>>

InitUnmapped ==
    /\ \E catalog \in RbacCatalogs, role_value \in UnmappedRoleValues :
          db = [catalog EXCEPT !.users = UnmappedUsers(role_value)]
    /\ tokens = {create_user_token(db, 1)}
    /\ audit_sink_ok = TRUE
    /\ request = NoRequest
    /\ response = NoResponse
    /\ sessions = NoSessions

NextUnmapped ==
    \/ \E token \in tokens, role_id \in RoleIds, role_in \in RoleUpdateBodies :
          UpdateRole(token, role_id, role_in)
    \/ \E user \in DOMAIN db.users, permission_code \in PermissionCodes :
          UserHasPermission(user, permission_code)
    \/ \E user \in DOMAIN db.users : GetUserPermissions(user)

SpecUnmapped == InitUnmapped /\ [][NextUnmapped]_vars

\* The users row with the role replaced by Operations.
AsOperations(user) == [user EXCEPT !.role = OPERATIONS]

\* C19: for a user whose role value is none of 1, 2, 3 the resolver
\* answers, for every permission code and for the listing, exactly what it
\* answers for the same user with role Operations in the same catalog
\* state; the calls made for such a user returned that.
C19_UnmappedRoleResolvesAsOperations ==
    /\ \A u \in DOMAIN db.users :
          db.users[u].role \notin UserRole
              => /\ \A code \in PermissionCodes :
                        user_has_permission(db, db.users[u], code)
                            = user_has_permission(db, AsOperations(db.users[u]), code)
                 /\ get_user_permissions(db, db.users[u])
                        = get_user_permissions(db, AsOperations(db.users[u]))
    /\ (request.op = "user_has_permission" /\ db.users[request.user].role \notin UserRole)
          => response.result
                = user_has_permission(db, AsOperations(db.users[request.user]),
                                      request.permission_code)
    /\ (request.op = "get_user_permissions" /\ db.users[request.user].role \notin UserRole)
          => response.result
                = get_user_permissions(db, AsOperations(db.users[request.user]))

\* The permissions of a user with an unmapped role value were listed and
\* were the non-empty set of Operations, which is not that of CXO.
C19_Witness ==
    /\ request.op = "get_user_permissions"
    /\ db.users[request.user].role \notin UserRole
    /\ response.result # {}
    /\ response.result # get_user_permissions(db, [db.users[request.user] EXCEPT !.role = CXO])

---------------------------------------------------------------------------
(* The error path of the audit recorder: log_error called with and         *)
(* without a severity, and through the handler registered for Exception.   *)

\* The errors log_error is called with directly: a class named by
\* determine_severity, a subclass of one for each of its two tests, and a
\* class it does not name.
LoggedErrors ==
    {Exception("RuntimeError", {}), Exception("RecursionError", {"RuntimeError"}),
     Exception("ValueError", {}), Exception("UnicodeDecodeError", {"ValueError"}),
     Exception("KeyError", {"LookupError"})}

NextLogError ==
    \/ \E error \in LoggedErrors, severity \in ErrorSeverity : LogError(error, severity)
    \/ \E error \in LoggedErrors : LogErrorDefault(error)
    \/ \E exc \in Exceptions : UnhandledException(exc)
    \/ AuditSinkChanges

SpecLogError == InitErrors /\ [][NextLogError]_vars

\* The classification as stated: instances of SystemError, MemoryError or
\* RuntimeError are critical, errors whose class is named ValidationError,
\* ValueError or TypeError are warnings, everything else is an error.
ClassifiedSeverity(error) ==
    CASE \E class \in {"SystemError", "MemoryError", "RuntimeError"} :
             class \in error.bases -> "critical"
      [] /\ \A class \in {"SystemError", "MemoryError", "RuntimeError"} :
                class \notin error.bases
         /\ error.class \in {"ValidationError", "ValueError", "TypeError"} -> "warning"
      [] OTHER -> "error"

\* The entry a step has appended to the trail.
AppendedEntry == db'.audit_logs[Len(db'.audit_logs)]

\* The statement as made: every entry produced by log_error, whoever
\* calls it and whether or not a severity is passed, has status error and
\* the severity determine_severity gives for the error.
C20_LogErrorClassifiesSeverity ==
    [][(request'.op \in {"log_error", "unhandled_exception"} /\ audit_sink_ok)
          => /\ Len(db'.audit_logs) = Len(db.audit_logs) + 1
             /\ AppendedEntry.status = "error"
             /\ AppendedEntry.severity = ClassifiedSeverity(request'.error)]_vars

\* C20: every entry produced by log_error has status error, the action
\* exception_raised, the class name of the error, and the severity the
\* caller passed, which is error when none is passed; the handler
\* registered for Exception passes determine_severity(exc), so its entries
\* are critical for SystemError, MemoryError and RuntimeError instances,
\* warnings for classes named ValidationError, ValueError or TypeError,
\* and errors otherwise.
C20_LogErrorRecordsPassedSeverity ==
    [][(request'.op \in {"log_error", "unhandled_exception"} /\ audit_sink_ok)
          => /\ Len(db'.audit_logs) = Len(db.audit_logs) + 1
             /\ AppendedEntry.status = "error"
             /\ AppendedEntry.action_type = "exception_raised"
             /\ AppendedEntry.error_type = request'.error.class
             /\ request'.op = "log_error"
                   => /\ AppendedEntry.severity = request'.severity
                      /\ ~request'.passed => AppendedEntry.severity = "error"
             /\ request'.op = "unhandled_exception"
                   => AppendedEntry.severity = ClassifiedSeverity(request'.error)]_vars

\* log_error was called without a severity for an error that
\* determine_severity classifies as critical, and the entry it wrote has
\* severity error.
C20_Witness ==
    /\ request.op = "log_error"
    /\ ~request.passed
    /\ audit_sink_ok
    /\ ClassifiedSeverity(request.error) = "critical"
    /\ Len(db.audit_logs) > 0
    /\ db.audit_logs[Len(db.audit_logs)].error_type = request.error.class
    /\ db.audit_logs[Len(db.audit_logs)].status = "error"
    /\ db.audit_logs[Len(db.audit_logs)].severity = "error"

---------------------------------------------------------------------------
(* Updates of a user's email and username (UserUpdate carries both).       *)

IdentityUpdateBodies ==
    [email : {"carol@x.com", "admin@revenueguardian.com"}]
        \cup [username : {"carol", "admin"}]
        \cup [email : {"carol@x.com"}, username : {"bob"}]
        \cup [is_active : {FALSE}]

NextIdentity ==
    \/ \E token \in RequestTokens, user_id \in UserIds,
           user_in \in IdentityUpdateBodies :
          UpdateUser(token, user_id, user_in)
    \/ \E token \in RequestTokens, user_id \in UserIds, is_active \in BOOLEAN :
          UpdateUserStatus(token, user_id, is_active)
    \/ \E token \in RequestTokens, user_id \in UserIds : DeleteUser(token, user_id)

SpecIdentity == InitDepartments /\ [][NextIdentity]_vars

UserUpdateOps == {"update_user", "update_user_status"}

---------------------------------------------------------------------------
(* The roles user management can store: bodies whose role is a UserRole,   *)
(* a null or an integer outside the enumeration.                           *)

InitClosedRoles ==
    /\ db = SeedDb
    /\ tokens = {create_user_token(db, 1)}
    /\ audit_sink_ok = TRUE
    /\ request = NoRequest
    /\ response = NoResponse
    /\ sessions = NoSessions

RoleInputs == {NULL, OPERATIONS, CXO, 4}

ClosedRoleCreateBodies ==
    [email : {"bob@x.com"}, username : {"bob"}, password : {"Other@123"},
     role : RoleInputs, department_id : {NULL}]

ClosedRoleUpdateBodies == [role : RoleInputs] \cup [is_active : {FALSE}]

NextClosedRoles ==
    \/ \E token \in RequestTokens, user_in \in ClosedRoleCreateBodies :
          CreateUser(token, user_in)
    \/ \E token \in RequestTokens, user_id \in UserIds,
           user_in \in ClosedRoleUpdateBodies :
          UpdateUser(token, user_id, user_in)
    \/ \E token \in RequestTokens, user_id \in UserIds, is_active \in BOOLEAN :
          UpdateUserStatus(token, user_id, is_active)
    \/ \E token \in RequestTokens, user_id \in UserIds : DeleteUser(token, user_id)

SpecClosedRoles == InitClosedRoles /\ [][NextClosedRoles]_vars

\* C25: starting from users whose roles are in {1, 2, 3}, every stored
\* role stays in {1, 2, 3} under create_user, update_user,
\* update_user_status and delete_user requests, so the resolver maps every
\* stored role by its table and not by its default; an update whose role is
\* neither a UserRole nor null is never answered 200.
C25_StoredRolesStayInUserRole ==
    /\ \A u \in DOMAIN db.users :
          /\ db.users[u].role \in UserRole
          /\ _get_role_code_from_value(db.users[u].role)
                = CASE db.users[u].role = ADMIN -> "ADMIN"
                    [] db.users[u].role = OPERATIONS -> "OPERATIONS"
                    [] db.users[u].role = CXO -> "CXO"
    /\ (/\ request.op = "update_user"
        /\ "role" \in DOMAIN request.user_in
        /\ request.user_in.role \notin UserRole)
          => response.status # HTTP_200_OK

\* An administrator's update asked for role 4 and was answered 422; the
\* addressed user has kept a role of the enumeration.
C25_Witness ==
    /\ request.op = "update_user"
    /\ "role" \in DOMAIN request.user_in
    /\ request.user_in.role = 4
    /\ response.status = HTTP_422_UNPROCESSABLE_ENTITY
    /\ request.user_id \in DOMAIN db.users
    /\ db.users[request.user_id].role \in UserRole

---------------------------------------------------------------------------
(* Users created with a department (create_user validates department_id). *)

InDepartmentCreateBodies ==
    [email : {"bob@x.com"}, username : {"bob"}, password : {"Other@123"},
     role : {OPERATIONS}, department_id : {NULL} \cup DepartmentIds]

NextCreateInDepartment ==
    \/ \E token \in RequestTokens, user_in \in InDepartmentCreateBodies :
          CreateUser(token, user_in)
    \/ \E token \in RequestTokens, department_in \in DepartmentCreateBodies :
          CreateDepartment(token, department_in)
    \/ \E token \in RequestTokens, department_id \in DepartmentIds,
           department_in \in DepartmentUpdateBodies :
          UpdateDepartment(token, department_id, department_in)
    \/ \E token \in RequestTokens, department_id \in DepartmentIds :
          DeleteDepartment(token, department_id)
    \/ \E token \in RequestTokens, user_id \in UserIds : DeleteUser(token, user_id)

SpecCreateInDepartment == InitClosedRoles /\ [][NextCreateInDepartment]_vars

\* C28: a create_user answered 201 whose body names a department stores
\* the new user with that department_id, so that the department's user
\* count is one more than before and a delete_department of it is refused
\* with 400.
C28_CreatedUserKeepsDepartment ==
    [][(/\ request'.op = "create_user"
        /\ response'.status = HTTP_201_CREATED
        /\ request'.user_in.department_id # NULL)
          => LET dept == request'.user_in.department_id
             IN  /\ db'.users[Len(db'.users)].department_id = dept
                 /\ department_repo_get_user_count(db', dept)
                       = department_repo_get_user_count(db, dept) + 1
                 /\ delete_department_handler(db', request'.token, dept).response.status
                       = HTTP_400_BAD_REQUEST]_vars

\* The part of C28 that holds: create_user answers 201 for a body that
\* names a department only if that department is stored, not soft-deleted
\* and active, and then appends one user with the body's email.
CreateUserValidatesDepartment ==
    [][(/\ request'.op = "create_user"
        /\ response'.status = HTTP_201_CREATED
        /\ request'.user_in.department_id # NULL)
          => LET dept == request'.user_in.department_id
             IN  /\ dept \in DOMAIN db.departments
                 /\ ~db.departments[dept].is_deleted
                 /\ db.departments[dept].is_active
                 /\ Len(db'.users) = Len(db.users) + 1
                 /\ db'.users[Len(db'.users)].email = request'.user_in.email]_vars

---------------------------------------------------------------------------
(* create_user served concurrently: each request runs in a session of its *)
(* own, and every statement of the handler (the two existence checks, the  *)
(* commit of the insert) is a step that sees what the store holds then.    *)

Finished(session, response_) == [session EXCEPT !.pc = "done", !.response = response_]

\* The dependencies and the validation of the body, then the first query.
BeginCreateUser(s, token, user_in) ==
    LET guard == require_admin(db, token)
        session == [op |-> "create_user", pc |-> "email_exists", token |-> token,
                    user_in |-> user_in, response |-> NoResponse]
    IN  /\ sessions[s] = Idle
        /\ sessions' = [sessions EXCEPT ![s] =
               IF ~guard.ok
               THEN Finished(session, HTTPException(guard.status, guard.detail))
               ELSE IF ~UserCreate_valid(user_in)
               THEN Finished(session, validation_exception_handler)
               ELSE session]
        /\ UNCHANGED <<db, tokens, audit_sink_ok, request, response>>

\* The request of session s is answered.
Answer(s, response_) ==
    /\ sessions' = [sessions EXCEPT ![s] = Finished(sessions[s], response_)]
    /\ request' = [op |-> sessions[s].op, token |-> sessions[s].token,
                   user_id |-> NULL, user_in |-> sessions[s].user_in]
    /\ response' = response_

\* user_repo.email_exists
CreateUserEmailExists(s) ==
    /\ sessions[s].pc = "email_exists"
    /\ IF user_repo_email_exists(db, sessions[s].user_in.email)
       THEN Answer(s, APIResponse(HTTP_400_BAD_REQUEST, "Email already exists"))
       ELSE /\ sessions' = [sessions EXCEPT ![s].pc = "username_exists"]
            /\ UNCHANGED <<request, response>>
    /\ UNCHANGED <<db, tokens, audit_sink_ok>>

\* user_repo.username_exists
CreateUserUsernameExists(s) ==
    /\ sessions[s].pc = "username_exists"
    /\ IF user_repo_username_exists(db, sessions[s].user_in.username)
       THEN Answer(s, APIResponse(HTTP_400_BAD_REQUEST, "Username already exists"))
       ELSE /\ sessions' = [sessions EXCEPT ![s].pc = "create"]
            /\ UNCHANGED <<request, response>>
    /\ UNCHANGED <<db, tokens, audit_sink_ok>>

\* user_repo.create: the commit of the insert, which the unique
\* constraints of the table decide.
CreateUserCommit(s) ==
    LET created == user_repo_create(db, sessions[s].user_in)
    IN  /\ sessions[s].pc = "create"
        /\ IF ~users_constraints_ok(created, db.departments)
           THEN /\ Answer(s, sqlalchemy_exception_handler)
                /\ UNCHANGED db
           ELSE /\ Answer(s, APIResponse(HTTP_201_CREATED, "User created successfully"))
                /\ db' = [db EXCEPT !.users = created]
        /\ UNCHANGED <<tokens, audit_sink_ok>>

\* Bodies with the same email, and the same or another username.
ConcurrentCreateBodies ==
    [email : {"bob@x.com"}, username : {"bob", "carol"}, password : {"Other@123"},
     role : {OPERATIONS}, department_id : {NULL}]

NextConcurrentCreate ==
    \/ \E s \in Sessions, token \in RequestTokens, user_in \in ConcurrentCreateBodies :
          BeginCreateUser(s, token, user_in)
    \/ \E s \in Sessions : CreateUserEmailExists(s)
    \/ \E s \in Sessions : CreateUserUsernameExists(s)
    \/ \E s \in Sessions : CreateUserCommit(s)

SpecConcurrentCreate == InitClosedRoles /\ [][NextConcurrentCreate]_vars

\* The sessions whose request was an administrator's and was answered.
AnsweredCreates ==
    {s \in Sessions : /\ sessions[s].pc = "done"
                      /\ sessions[s].response.status
                            \notin {HTTP_401_UNAUTHORIZED, HTTP_403_FORBIDDEN}}

\* C29: whatever the interleaving of two create_user requests with the
\* same email, no two stored users share an email, no request is answered
\* with a 500-class status, and once both are answered one has 201 and the
\* other 400.
C29_ConcurrentCreateOne201One400 ==
    /\ \A i, j \in DOMAIN db.users : i # j => db.users[i].email # db.users[j].email
    /\ \A s \in Sessions :
          sessions[s].pc = "done"
              => sessions[s].response.status < HTTP_500_INTERNAL_SERVER_ERROR
    /\ \A s, t \in AnsweredCreates :
          s # t => {sessions[s].response.status, sessions[t].response.status}
                      = {HTTP_201_CREATED, HTTP_400_BAD_REQUEST}

\* The part of C29 that holds: no two stored users share an email or a
\* username, and of two answered requests exactly one has 201 while the
\* other has 400 or 500.
ConcurrentCreateStoresOneUser ==
    /\ \A i, j \in DOMAIN db.users :
          i # j => /\ db.users[i].email # db.users[j].email
                   /\ db.users[i].username # db.users[j].username
    /\ \A s, t \in AnsweredCreates :
          s # t => \E a \in {s, t}, b \in {s, t} :
                      /\ a # b
                      /\ sessions[a].response.status = HTTP_201_CREATED
                      /\ sessions[b].response.status
                            \in {HTTP_400_BAD_REQUEST, HTTP_500_INTERNAL_SERVER_ERROR}

---------------------------------------------------------------------------
(* delete_department served concurrently with update_user: the lookup, the *)
(* user count and the soft delete of one, the lookup and the commit of the *)
(* other, are steps of their own session; nothing locks between them.      *)

BeginDeleteDepartment(s, token, department_id) ==
    LET guard == require_admin(db, token)
        session == [op |-> "delete_department", pc |-> "get_by_id", token |-> token,
                    department_id |-> department_id, response |-> NoResponse]
    IN  /\ sessions[s] = Idle
        /\ sessions' = [sessions EXCEPT ![s] =
               IF ~guard.ok
               THEN Finished(session, HTTPException(guard.status, guard.detail))
               ELSE session]
        /\ UNCHANGED <<db, tokens, audit_sink_ok, request, response>>

AnswerDeleteDepartment(s, response_) ==
    /\ sessions' = [sessions EXCEPT ![s] = Finished(sessions[s], response_)]
    /\ request' = [op |-> "delete_department", token |-> sessions[s].token,
                   department_id |-> sessions[s].department_id]
    /\ response' = response_

\* department_repo.get_by_id
DeleteDepartmentGetById(s) ==
    /\ sessions[s].op = "delete_department"
    /\ sessions[s].pc = "get_by_id"
    /\ IF department_repo_get_by_id(db, sessions[s].department_id) = NULL
       THEN AnswerDeleteDepartment(s, HTTPException(HTTP_404_NOT_FOUND,
                                                    "Department not found"))
       ELSE /\ sessions' = [sessions EXCEPT ![s].pc = "get_user_count"]
            /\ UNCHANGED <<request, response>>
    /\ UNCHANGED <<db, tokens, audit_sink_ok>>

\* department_repo.get_user_count
DeleteDepartmentGetUserCount(s) ==
    /\ sessions[s].op = "delete_department"
    /\ sessions[s].pc = "get_user_count"
    /\ IF department_repo_get_user_count(db, sessions[s].department_id) > 0
       THEN AnswerDeleteDepartment(s,
                HTTPException(HTTP_400_BAD_REQUEST,
                              "Cannot delete department with assigned user(s)"))
       ELSE /\ sessions' = [sessions EXCEPT ![s].pc = "delete"]
            /\ UNCHANGED <<request, response>>
    /\ UNCHANGED <<db, tokens, audit_sink_ok>>

\* department_repo.delete: the commit of the soft delete.
DeleteDepartmentCommit(s) ==
    /\ sessions[s].op = "delete_department"
    /\ sessions[s].pc = "delete"
    /\ db' = [db EXCEPT !.departments =
                 department_repo_delete(db, sessions[s].department_id)]
    /\ AnswerDeleteDepartment(s, [status |-> HTTP_200_OK,
                                  message |-> "Department deleted successfully",
                                  department_id |-> sessions[s].department_id])
    /\ UNCHANGED <<tokens, audit_sink_ok>>

BeginUpdateUser(s, token, user_id, user_in) ==
    LET guard == require_admin(db, token)
        session == [op |-> "update_user", pc |-> "get_by_id", token |-> token,
                    user_id |-> user_id, user_in |-> user_in, response |-> NoResponse]
    IN  /\ sessions[s] = Idle
        /\ sessions' = [sessions EXCEPT ![s] =
               IF ~guard.ok
               THEN Finished(session, HTTPException(guard.status, guard.detail))
               ELSE IF ~UserUpdate_valid(user_in)
               THEN Finished(session, validation_exception_handler)
               ELSE session]
        /\ UNCHANGED <<db, tokens, audit_sink_ok, request, response>>

AnswerUpdateUser(s, response_) ==
    /\ sessions' = [sessions EXCEPT ![s] = Finished(sessions[s], response_)]
    /\ request' = [op |-> "update_user", token |-> sessions[s].token,
                   user_id |-> sessions[s].user_id, user_in |-> sessions[s].user_in]
    /\ response' = response_

\* user_repo.get_by_id; a body without email and username skips the two
\* existence checks.
UpdateUserGetById(s) ==
    /\ sessions[s].op = "update_user"
    /\ sessions[s].pc = "get_by_id"
    /\ {"email", "username"} \cap DOMAIN sessions[s].user_in = {}
    /\ IF user_repo_get_by_id(db, sessions[s].user_id) = NULL
       THEN AnswerUpdateUser(s, APIResponse(HTTP_404_NOT_FOUND, "User not found"))
       ELSE /\ sessions' = [sessions EXCEPT ![s].pc = "update"]
            /\ UNCHANGED <<request, response>>
    /\ UNCHANGED <<db, tokens, audit_sink_ok>>

\* user_repo.update: the commit of the row loaded by get_by_id, which the
\* constraints of the table decide.
UpdateUserCommit(s) ==
    LET updated == user_repo_update(db, sessions[s].user_id, sessions[s].user_in)
    IN  /\ sessions[s].op = "update_user"
        /\ sessions[s].pc = "update"
        /\ IF ~users_constraints_ok(updated, db.departments)
           THEN /\ AnswerUpdateUser(s, sqlalchemy_exception_handler)
                /\ UNCHANGED db
           ELSE /\ AnswerUpdateUser(s, APIResponse(HTTP_200_OK,
                                                   "User updated successfully"))
                /\ db' = [db EXCEPT !.users = updated]
        /\ UNCHANGED <<tokens, audit_sink_ok>>

\* Bodies that assign a department or clear the assignment.
AssignDepartmentBodies == [department_id : {NULL} \cup DepartmentIds]

NextConcurrentDelete ==
    \/ \E s \in Sessions, token \in RequestTokens, department_id \in DepartmentIds :
          BeginDeleteDepartment(s, token, department_id)
    \/ \E s \in Sessions : DeleteDepartmentGetById(s)
    \/ \E s \in Sessions : DeleteDepartmentGetUserCount(s)
    \/ \E s \in Sessions : DeleteDepartmentCommit(s)
    \/ \E s \in Sessions, token \in RequestTokens, user_id \in UserIds,
           user_in \in AssignDepartmentBodies :
          BeginUpdateUser(s, token, user_id, user_in)
    \/ \E s \in Sessions : UpdateUserGetById(s)
    \/ \E s \in Sessions : UpdateUserCommit(s)

SpecConcurrentDelete == InitDepartments /\ [][NextConcurrentDelete]_vars

\* C30: whatever the interleaving of a delete_department with an
\* update_user that assigns the department, no department is soft-deleted
\* while a user references it.
C30_NoDeletedDepartmentIsReferenced ==
    \A dept \in DOMAIN db.departments :
        db.departments[dept].is_deleted => UsersReferencing(db, dept) = {}

\* The part of C30 that holds: a delete_department whose count sees a user
\* of the department is answered 400 and deletes nothing, and every stored
\* department_id is that of a stored department.
CountedUsersBlockDelete ==
    [][/\ \A s \in Sessions :
             (/\ sessions[s].pc = "get_user_count"
              /\ sessions'[s].pc = "done"
              /\ UsersReferencing(db, sessions[s].department_id) # {})
                 => /\ sessions'[s].response.status = HTTP_400_BAD_REQUEST
                    /\ db' = db
       /\ \A u \in DOMAIN db'.users :
             db'.users[u].department_id # NULL
                 => db'.users[u].department_id \in DOMAIN db'.departments]_vars

=============================================================================
